---------------------------- MODULE Spec2Model ----------------------------
(***************************************************************************)
(* A model of the Redis-compatible server in src/app: the RESP codec       *)
(* (resp.py), the keyspace with lazy expiry (commands.py, expiry.py), the  *)
(* stream commands (commands.py) and primary/replica replication           *)
(* (main.py, replication.py, commands.py handle_wait).                     *)
(*                                                                         *)
(* Python values are tagged records: None is [t |-> "none"], a str is      *)
(* [t |-> "str", s |-> <<char codes>>], an int is [t |-> "int", n |-> i],  *)
(* a list is [t |-> "list", a |-> <<values>>].  Bytes on a connection are  *)
(* sequences of character codes (ASCII only).                              *)
(***************************************************************************)
EXTENDS Integers, Sequences, FiniteSets, TLC

(***************************************************************************)
(* Python values                                                           *)
(***************************************************************************)
PyNone == [t |-> "none"]
PyStr(s) == [t |-> "str", s |-> s]
PyInt(n) == [t |-> "int", n |-> n]
PyList(a) == [t |-> "list", a |-> a]

\* The delimiter "\r\n" (resp.py DELIMITER).
CRLF == <<13, 10>>

\* str(n) for a Python int: the decimal digits, "-" first for a negative.
RECURSIVE str(_)
str(n) ==
    IF n < 0 THEN <<45>> \o str(0 - n)
    ELSE IF n < 10 THEN <<48 + n>>
    ELSE str(n \div 10) \o <<48 + (n % 10)>>

IsDigit(c) == c >= 48 /\ c <= 57

RECURSIVE DigitsValue(_)
DigitsValue(d) ==
    IF Len(d) = 0 THEN 0
    ELSE 10 * DigitsValue(SubSeq(d, 1, Len(d) - 1)) + (d[Len(d)] - 48)

\* int(text): [ok, n]; ok is FALSE where Python raises ValueError.
int(text) ==
    LET neg == Len(text) > 0 /\ text[1] = 45
        pos == Len(text) > 0 /\ text[1] = 43
        d == IF neg \/ pos THEN Tail(text) ELSE text
    IN  IF Len(d) > 0 /\ \A i \in 1..Len(d) : IsDigit(d[i])
        THEN [ok |-> TRUE, n |-> IF neg THEN 0 - DigitsValue(d) ELSE DigitsValue(d)]
        ELSE [ok |-> FALSE, n |-> 0]

\* str.upper() on ASCII.
upper(s) == [i \in 1..Len(s) |-> IF s[i] >= 97 /\ s[i] <= 122 THEN s[i] - 32 ELSE s[i]]

(***************************************************************************)
(* RESPWriter: the serializers (resp.py 191-252)                           *)
(***************************************************************************)
serialize_simple_string(data) == <<43>> \o data \o CRLF

serialize_simple_error(data) == <<45>> \o data \o CRLF

serialize_integer(n) == <<58>> \o str(n) \o CRLF

\* "if not data" is true of None and of the empty str alike.
serialize_bulk_string(data) ==
    IF data.t = "none" \/ (data.t = "str" /\ data.s = <<>>)
    THEN <<36, 45, 49>> \o CRLF
    ELSE <<36>> \o str(Len(data.s)) \o CRLF \o data.s \o CRLF

\* An element that is neither str, int nor list (None) adds nothing.
RECURSIVE serialize_array(_)
serialize_array(arr) ==
    LET RECURSIVE body(_)
        body(i) ==
            IF i > Len(arr) THEN <<>>
            ELSE (CASE arr[i].t = "str" -> serialize_bulk_string(arr[i])
                    [] arr[i].t = "int" -> serialize_integer(arr[i].n)
                    [] arr[i].t = "list" -> serialize_array(arr[i].a)
                    [] OTHER -> <<>>) \o body(i + 1)
    IN  <<42>> \o str(Len(arr)) \o CRLF \o body(1)

(***************************************************************************)
(* RESPReader (resp.py 22-173).  A read returns                            *)
(*   [st |-> "ok", val |-> value, rest |-> bytes left in the stream],      *)
(*   [st |-> "incomplete"] when the stream holds too few bytes (the read   *)
(*   waits, or fails with IncompleteReadError at EOF), or                  *)
(*   [st |-> "error"] when it raises (RuntimeError, ValueError).           *)
(***************************************************************************)
Ok(v, rest) == [st |-> "ok", val |-> v, rest |-> rest]
Incomplete == [st |-> "incomplete"]
Raised == [st |-> "error"]

\* readuntil(b"\r\n"): the line without its CRLF, and the rest.
read_line(buf) ==
    LET ends == {i \in 1..(Len(buf) - 1) : buf[i] = 13 /\ buf[i + 1] = 10}
    IN  IF ends = {} THEN Incomplete
        ELSE LET i == CHOOSE j \in ends : \A k \in ends : j <= k
             IN  Ok(SubSeq(buf, 1, i - 1), SubSeq(buf, i + 2, Len(buf)))

\* readexactly(n) followed by data[:-2].
read_until(buf, n) ==
    IF n < 0 THEN Raised
    ELSE IF Len(buf) < n THEN Incomplete
    ELSE Ok(SubSeq(buf, 1, n - 2), SubSeq(buf, n + 1, Len(buf)))

read_simple_string(buf) ==
    LET l == read_line(buf)
    IN  IF l.st # "ok" THEN l ELSE Ok(PyStr(l.val), l.rest)

read_integer(buf) ==
    LET l == read_line(buf)
    IN  IF l.st # "ok" THEN l
        ELSE IF ~int(l.val).ok THEN Raised
        ELSE Ok(PyInt(int(l.val).n), l.rest)

read_bulk_string(buf) ==
    LET l == read_line(buf)
    IN  IF l.st # "ok" THEN l
        ELSE IF ~int(l.val).ok THEN Raised
        ELSE IF int(l.val).n = -1 THEN Ok(PyNone, l.rest)
        ELSE LET d == read_until(l.rest, int(l.val).n + 2)
             IN  IF d.st # "ok" THEN d ELSE Ok(PyStr(d.val), d.rest)

RECURSIVE read_message(_)
RECURSIVE read_elements(_, _, _)

\* read_array after the optional skip of one byte.
read_array_body(buf) ==
    LET l == read_line(buf)
    IN  IF l.st # "ok" THEN l
        ELSE IF l.val = <<>> THEN Ok(PyList(<<>>), l.rest)
        ELSE IF ~int(l.val).ok THEN Raised
        ELSE IF int(l.val).n = -1 THEN Ok(PyNone, l.rest)
        ELSE read_elements(l.rest, int(l.val).n, <<>>)

read_array(buf, skip_first_byte) ==
    IF skip_first_byte
    THEN LET s == read_until(buf, 1)
         IN  IF s.st # "ok" THEN s ELSE read_array_body(s.rest)
    ELSE read_array_body(buf)

read_elements(buf, n, acc) ==
    IF n <= 0 THEN Ok(PyList(acc), buf)
    ELSE LET m == read_message(buf)
         IN  IF m.st # "ok" THEN m
             ELSE read_elements(m.rest, n - 1, Append(acc, m.val))

read_message(buf) ==
    IF Len(buf) = 0 THEN Incomplete
    ELSE CASE buf[1] = 43 -> read_simple_string(Tail(buf))
           [] buf[1] = 45 -> read_simple_string(Tail(buf))
           [] buf[1] = 58 -> read_integer(Tail(buf))
           [] buf[1] = 36 -> read_bulk_string(Tail(buf))
           [] buf[1] = 42 -> read_array(Tail(buf), FALSE)
           [] OTHER -> Raised

\* read_rdb: one byte, a length line, then exactly that many bytes.
read_rdb(buf) ==
    IF Len(buf) < 1 THEN Incomplete
    ELSE LET l == read_line(Tail(buf))
         IN  IF l.st # "ok" THEN l
             ELSE IF ~int(l.val).ok THEN Raised
             ELSE IF int(l.val).n = -1 THEN Ok(<<>>, l.rest)
             ELSE IF int(l.val).n < 0 THEN Raised
             ELSE IF Len(l.rest) < int(l.val).n THEN Incomplete
             ELSE Ok(SubSeq(l.rest, 1, int(l.val).n),
                     SubSeq(l.rest, int(l.val).n + 1, Len(l.rest)))

\* len(x) of a Python value: defined for str and list only.
HasLen(x) == x.t \in {"str", "list"}
PyLen(x) == IF x.t = "str" THEN Len(x.s) ELSE Len(x.a)

\* The elements a for-loop over the value visits: a list's elements, a
\* str's characters (each a str of length 1).
PyItems(x) ==
    IF x.t = "list" THEN x.a
    ELSE [i \in 1..Len(x.s) |-> PyStr(<<x.s[i]>>)]

\* get_byte_offset raises TypeError when the message, or an element of it,
\* has no len().
get_byte_offset_raises(message) ==
    \/ ~HasLen(message)
    \/ \E i \in 1..PyLen(message) : ~HasLen(PyItems(message)[i])

get_byte_offset(message) ==
    LET items == PyItems(message)
        RECURSIVE sum(_)
        sum(i) == IF i > Len(items) THEN 0
                  ELSE Len(str(PyLen(items[i]))) + 1 + PyLen(items[i]) + sum(i + 1)
    IN  2 * (2 * PyLen(message) + 1) + Len(str(PyLen(message))) + 1 + sum(1)

(***************************************************************************)
(* Bounds and input sets                                                   *)
(***************************************************************************)
\* The clock stops advancing at MaxTime.
MaxTime == 3

\* Keys "k" and "j"; values "", "a"; the TTL argument "1".
Keys == {<<107>>, <<106>>}
Values == {<<>>, <<97>>}
TtlArgs == {<<49>>}
\* "ex", "EX", "px", "PX"
ExpiryOpts == {<<101, 120>>, <<69, 88>>, <<112, 120>>, <<80, 88>>}

CmdSET == <<83, 69, 84>>
CmdGET == <<71, 69, 84>>
CmdKEYS == <<75, 69, 89, 83>>
CmdTYPE == <<84, 89, 80, 69>>
Star == <<42>>

\* A command as the handler holds it after read_message: a list of str.
Cmd(words) == PyList([i \in 1..Len(words) |-> PyStr(words[i])])

SetMsgs ==
    {Cmd(<<CmdSET, k, v>>) : k \in Keys, v \in Values}
    \cup {Cmd(<<CmdSET, kv[1], kv[2], on[1], on[2]>>) :
            kv \in Keys \X Values, on \in ExpiryOpts \X TtlArgs}
GetMsgs == {Cmd(<<CmdGET, k>>) : k \in Keys}
KeysMsgs == {Cmd(<<CmdKEYS, Star>>)}
TypeMsgs == {Cmd(<<CmdTYPE, k>>) : k \in Keys}

\* The connections of a primary: clients, and the connections replicas
\* opened to it.  The keyspace commands arrive on the first client.
Clients == {"c1", "c2"}
Replicas == {"r1", "r2"}
KvClients == {"c1"}
Conns == Clients \cup Replicas

(***************************************************************************)
(* State                                                                   *)
(***************************************************************************)
VARIABLES
    now,        \* int(time.time() * 1000), the clock in ms
    datastore,  \* replication.datastore: the dict key -> (value, expiry), as
                \* the sequence of its items in insertion order
    msg,        \* per connection: the message the handler last decoded
    out,        \* per connection: the bytes of the last frame written to it
    pcH,        \* per connection: "read" (handler in its loop) or "dead"
                \* (the handler task ended with an unhandled exception)
    streams     \* commands.streams: the dict stream_key -> stream, a stream
                \* being the dict entry id -> fields; both as item sequences

\* The replication state of a primary (main.py), the replica processes
\* (replication.py replica_tasks) and the links between them.
VARIABLES
    replication_buffer, \* the deque of serialized frames awaiting propagation
    replicas,           \* the list of registered replica connections
    toReplica,          \* per replica: bytes the primary wrote, not yet read
    toPrimary,          \* per replica: bytes the replica wrote, not yet read
    prop,               \* propagate_commands: its position, cmd and loop index
    rpc,                \* per replica: the position of replica_tasks
    offset,             \* per replica: replica_tasks' local offset
    rstore,             \* per replica: the replica's datastore
    wait,               \* per client: the locals of a running handle_wait
    budget              \* SET and WAIT commands the clients may still send

\* History kept for the claims; the program does not read it.
VARIABLES
    writes,     \* the SET frames, in the order the keyspace was updated
    queued,     \* the SET frames, in the order they entered the queue
    applied,    \* per replica: the SET frames in the order it applied them
    consumed    \* per replica: bytes of the frames its loop took off the wire

replVars == <<replication_buffer, replicas, toReplica, toPrimary, prop, rpc,
              offset, rstore, wait, budget, writes, queued, applied, consumed>>

\* A writer and a reader joined back to back, to exercise the codec alone.
VARIABLES
    cmsg,   \* the Python value handed to the writer
    cwire,  \* the bytes the writer produced for it (<<>>: nothing written)
    cread,  \* what read_message made of those bytes
    csize   \* what get_byte_offset returned for the value

\* The RDB parser reading a file.
VARIABLES
    fhand,  \* the bytes of the file that are not read yet
    rdb     \* the parser method that ran, the bytes it found, and its result

rdbVars == <<fhand, rdb>>

\* main.py 28: the configuration parameters, key -> value.
VARIABLE CONFIG

codecVars == <<cmsg, cwire, cread, csize, rdbVars, CONFIG>>

NotRun == [t |-> "not run"]
TypeError == [t |-> "TypeError"]

\* The codec is not exercised, and the server was started without --dir
\* and --dbfilename.
CodecIdle ==
    /\ cmsg = PyNone
    /\ cwire = <<>>
    /\ cread = NotRun
    /\ csize = NotRun
    /\ fhand = <<>>
    /\ rdb = NotRun
    /\ CONFIG = <<>>

\* No replication activity: the state of these variables at startup.
PropPoll == [pc |-> "poll", cmd |-> <<>>, i |-> 0]

WaitIdle ==
    [master_offset |-> 0, num_replicas |-> 0, timeout |-> 0,
     updated_replicas |-> 0, i |-> 0, elapsed |-> 0, response |-> 0,
     sent |-> <<>>, acks |-> <<>>, slept |-> FALSE, replied |-> FALSE]

\* The replication state at startup, the links and the replica processes
\* apart.
ReplQuiet(sets, waits) ==
    /\ replication_buffer = <<>>
    /\ replicas = <<>>
    /\ toPrimary = [r \in Replicas |-> <<>>]
    /\ prop = PropPoll
    /\ offset = [r \in Replicas |-> 0]
    /\ rstore = [r \in Replicas |-> <<>>]
    /\ wait = [c \in Clients |-> WaitIdle]
    /\ budget = [sets |-> sets, waits |-> waits]
    /\ writes = <<>>
    /\ queued = <<>>
    /\ applied = [r \in Replicas |-> <<>>]
    /\ consumed = [r \in Replicas |-> 0]

\* attaching: the replicas that connect to the primary.
ReplStart(sets, waits, attaching) ==
    /\ ReplQuiet(sets, waits)
    /\ toReplica = [r \in Replicas |-> <<>>]
    /\ rpc = [r \in Replicas |-> IF r \in attaching THEN "start" ELSE "off"]

ReplIdle == ReplStart(0, 0, {})

vars == <<now, datastore, msg, out, pcH, streams, replVars, codecVars>>

EXPIRY_TIMESTAMP_DEFAULT_VAL == 0

(***************************************************************************)
(* A Python dict as the sequence of its items, in insertion order          *)
(***************************************************************************)
DictKeys(d) == [i \in 1..Len(d) |-> d[i].key]
DictHas(d, k) == \E i \in 1..Len(d) : d[i].key = k
DictIdx(d, k) == CHOOSE i \in 1..Len(d) : d[i].key = k
\* d.get(k, default)
DictGet(d, k, default) == IF DictHas(d, k) THEN d[DictIdx(d, k)] ELSE default
\* d[k] = (v, e): an existing key keeps its place
DictSet(d, k, v, e) ==
    LET item == [key |-> k, val |-> v, exp |-> e]
    IN  IF DictHas(d, k) THEN [d EXCEPT ![DictIdx(d, k)] = item]
        ELSE Append(d, item)
\* del d[k]
DictDel(d, k) ==
    LET i == DictIdx(d, k)
    IN  SubSeq(d, 1, i - 1) \o SubSeq(d, i + 1, Len(d))

(***************************************************************************)
(* expiry.py                                                               *)
(***************************************************************************)
\* get_expiry_timestamp: only the option "ex" (lower case) multiplies by 1000.
get_expiry_timestamp(m) ==
    IF Len(m) > 3
    THEN LET opt == m[4].s
             expiry == int(m[5].s).n
         IN  now + (IF opt = <<101, 120>> THEN expiry * 1000 ELSE expiry)
    ELSE EXPIRY_TIMESTAMP_DEFAULT_VAL

\* check_key_expiration: TRUE when the key is expired (and then deleted).
check_key_expiration(expiry_timestamp) ==
    IF expiry_timestamp = EXPIRY_TIMESTAMP_DEFAULT_VAL THEN FALSE
    ELSE now > expiry_timestamp

(***************************************************************************)
(* commands.py: the keyspace handlers                                      *)
(***************************************************************************)
\* type(value).__name__ looked up in type_mapping
type_name(value) ==
    CASE value.t = "none" -> <<110, 111, 110, 101>>               \* "none"
      [] value.t = "str" -> <<115, 116, 114, 105, 110, 103>>      \* "string"
      [] value.t = "int" -> <<105, 110, 116, 101, 103, 101, 114>> \* "integer"
      [] value.t = "list" -> <<108, 105, 115, 116>>               \* "list"
      [] value.t = "stream_key_type" -> <<115, 116, 114, 101, 97, 109>> \* "stream"
      [] OTHER -> <<110, 111, 110, 101>>

Handled(c, m, frame) ==
    /\ msg' = [msg EXCEPT ![c] = m]
    /\ out' = [out EXCEPT ![c] = frame]

handle_set(c, m) ==
    /\ pcH[c] = "read"
    /\ datastore' = DictSet(datastore, m.a[2].s, m.a[3], get_expiry_timestamp(m.a))
    /\ Handled(c, m, serialize_simple_string(<<79, 75>>))
    /\ UNCHANGED <<now, pcH, streams, replVars, codecVars>>

handle_get(c, m) ==
    /\ pcH[c] = "read"
    /\ LET key == m.a[2].s
           item == DictGet(datastore, key,
                           [val |-> PyNone, exp |-> EXPIRY_TIMESTAMP_DEFAULT_VAL])
           expired == check_key_expiration(item.exp)
           value == IF expired THEN PyNone ELSE item.val
       IN  /\ datastore' = IF expired THEN DictDel(datastore, key) ELSE datastore
           /\ IF value.t \in {"none", "str"}
              THEN /\ Handled(c, m, serialize_bulk_string(value))
                   /\ UNCHANGED pcH
              ELSE \* len() of a stream_key_type object: TypeError
                   /\ msg' = [msg EXCEPT ![c] = m]
                   /\ pcH' = [pcH EXCEPT ![c] = "dead"]
                   /\ UNCHANGED out
    /\ UNCHANGED <<now, streams, replVars, codecVars>>

handle_list_keys(c, m) ==
    /\ pcH[c] = "read"
    /\ m.a[2].s = Star
    /\ Handled(c, m, serialize_array([i \in 1..Len(datastore) |-> PyStr(datastore[i].key)]))
    /\ UNCHANGED <<now, datastore, pcH, streams, replVars, codecVars>>

handle_type(c, m) ==
    /\ pcH[c] = "read"
    /\ LET item == DictGet(datastore, m.a[2].s, [val |-> PyNone])
       IN  Handled(c, m, serialize_simple_string(type_name(item.val)))
    /\ UNCHANGED <<now, datastore, pcH, streams, replVars, codecVars>>

\* The clock advances.
Tick ==
    /\ now < MaxTime
    /\ now' = now + 1
    /\ UNCHANGED <<datastore, msg, out, pcH, streams, replVars, codecVars>>

(***************************************************************************)
(* The keyspace specification: SET, GET, KEYS, TYPE and the clock          *)
(***************************************************************************)
Init ==
    /\ now = 1
    /\ datastore = <<>>
    /\ msg = [c \in Conns |-> PyNone]
    /\ out = [c \in Conns |-> <<>>]
    /\ pcH = [c \in Conns |-> "read"]
    /\ streams = <<>>
    /\ ReplIdle
    /\ CodecIdle

Set == \E c \in KvClients, m \in SetMsgs : handle_set(c, m)
Get == \E c \in KvClients, m \in GetMsgs : handle_get(c, m)
ListKeys == \E c \in KvClients, m \in KeysMsgs : handle_list_keys(c, m)
Type == \E c \in KvClients, m \in TypeMsgs : handle_type(c, m)

Next == Set \/ Get \/ ListKeys \/ Type \/ Tick

Spec == Init /\ [][Next]_vars

(***************************************************************************)
(* Claims about the keyspace                                               *)
(***************************************************************************)
\* What a client decodes from the last frame written to connection c.
Reply(c) == read_message(out[c])
ReplyAfter(c) == read_message(out'[c])
NullBulk == <<36, 45, 49, 13, 10>>

\* The keys of the keyspace whose expiry is set and lies before the clock.
IsExpired(item) == item.exp # EXPIRY_TIMESTAMP_DEFAULT_VAL /\ item.exp < now

\* C1: SET/GET round-trip.  A GET of a key that holds the str v stored by a
\* SET without EX/PX (expiry 0), with no write to it since, is answered with
\* the bulk string v exactly, never with the null bulk; v may be empty.
C1_SetGetRoundTrip ==
    [][\A c \in KvClients, k \in Keys, v \in Values :
          ( /\ handle_get(c, Cmd(<<CmdGET, k>>))
            /\ DictHas(datastore, k)
            /\ DictGet(datastore, k, PyNone).val = PyStr(v)
            /\ DictGet(datastore, k, PyNone).exp = EXPIRY_TIMESTAMP_DEFAULT_VAL )
          => /\ out'[c] # NullBulk
             /\ ReplyAfter(c) = Ok(PyStr(v), <<>>)]_vars

\* C2: lazy expiry on GET.  A GET of a key whose expiry is non-zero and
\* smaller than the clock replies null bulk and removes the key; a GET of a
\* key whose expiry is 0 or not smaller than the clock returns the stored
\* value and leaves the keyspace as it is; a GET of a missing key replies
\* null bulk and changes nothing.
C2_LazyExpiryOnGet ==
    [][\A c \in KvClients, k \in Keys :
          handle_get(c, Cmd(<<CmdGET, k>>)) =>
            IF ~DictHas(datastore, k)
            THEN out'[c] = NullBulk /\ datastore' = datastore
            ELSE IF IsExpired(DictGet(datastore, k, PyNone))
            THEN out'[c] = NullBulk /\ ~DictHas(datastore', k)
            ELSE /\ ReplyAfter(c) = Ok(DictGet(datastore, k, PyNone).val, <<>>)
                 /\ datastore' = datastore]_vars

\* C3: expired keys are unobservable through KEYS and TYPE.  The reply to
\* KEYS * lists no key whose expiry is non-zero and smaller than the clock,
\* and TYPE on such a key replies none.
C3_ExpiredKeysUnobservable ==
    [][\A c \in KvClients, k \in Keys :
          (DictHas(datastore, k) /\ IsExpired(DictGet(datastore, k, PyNone))) =>
            /\ handle_list_keys(c, Cmd(<<CmdKEYS, Star>>)) =>
                 \A i \in 1..Len(ReplyAfter(c).val.a) : ReplyAfter(c).val.a[i] # PyStr(k)
            /\ handle_type(c, Cmd(<<CmdTYPE, k>>)) =>
                 out'[c] = serialize_simple_string(<<110, 111, 110, 101>>)]_vars

(***************************************************************************)
(* commands.py: streams                                                    *)
(***************************************************************************)
\* A stream holds at most MaxStreamLen entries; the stream clock stops at
\* MaxStreamTime.
MaxStreamLen == 3
MaxStreamTime == 10

CmdXADD == <<88, 65, 68, 68>>
XaddKeys == {<<107>>}
\* The id arguments: <ms>-<seq> and <ms>-* for ms in {0, 9, 10} and seq in
\* {0, 1}, and "*".
XaddIds ==
    {str(ms) \o <<45>> \o sq : ms \in {0, 9, 10}, sq \in {<<48>>, <<49>>, Star}}
    \cup {Star}
\* one field "f" with the value "1"
XaddMsgs ==
    {Cmd(<<CmdXADD, k, id, <<102>>, <<49>>>>) : k \in XaddKeys, id \in XaddIds}

\* a < b on Python str: lexicographic on the character codes.
RECURSIVE StrLess(_, _)
StrLess(a, b) ==
    IF b = <<>> THEN FALSE
    ELSE IF a = <<>> THEN TRUE
    ELSE IF a[1] # b[1] THEN a[1] < b[1]
    ELSE StrLess(Tail(a), Tail(b))

\* sorted(list(stream.keys()))[-1]: the greatest id as a str.
SortedLast(stream) ==
    CHOOSE i \in {stream[j].key : j \in 1..Len(stream)} :
        \A j \in 1..Len(stream) : stream[j].key = i \/ StrLess(stream[j].key, i)

\* text.split("-")
RECURSIVE split(_)
split(text) ==
    IF \A i \in 1..Len(text) : text[i] # 45 THEN <<text>>
    ELSE LET i == CHOOSE j \in 1..Len(text) :
                      text[j] = 45 /\ \A k \in 1..(j - 1) : text[k] # 45
         IN  <<SubSeq(text, 1, i - 1)>> \o split(SubSeq(text, i + 1, Len(text)))

\* d[k] = item for a dict held as its item sequence.
DictPut(d, k, item) ==
    IF DictHas(d, k) THEN [d EXCEPT ![DictIdx(d, k)] = item] ELSE Append(d, item)

\* The dict built from the field/value words that follow the id.
RECURSIVE stream_entry(_, _, _)
stream_entry(words, i, acc) ==
    IF i > Len(words) THEN acc
    ELSE stream_entry(words, i + 2,
                      DictPut(acc, words[i].s, [key |-> words[i].s, val |-> words[i + 1].s]))

ErrZeroId ==
    <<69, 82, 82, 32, 84, 104, 101, 32, 73, 68, 32, 115, 112, 101, 99, 105,
      102, 105, 101, 100, 32, 105, 110, 32, 88, 65, 68, 68, 32, 109, 117, 115,
      116, 32, 98, 101, 32, 103, 114, 101, 97, 116, 101, 114, 32, 116, 104, 97,
      110, 32, 48, 45, 48>>
ErrNotGreater ==
    <<69, 82, 82, 32, 84, 104, 101, 32, 73, 68, 32, 115, 112, 101, 99, 105,
      102, 105, 101, 100, 32, 105, 110, 32, 88, 65, 68, 68, 32, 105, 115, 32,
      101, 113, 117, 97, 108, 32, 111, 114, 32, 115, 109, 97, 108, 108, 101,
      114, 32, 116, 104, 97, 110, 32, 116, 104, 101, 32, 116, 97, 114, 103,
      101, 116, 32, 115, 116, 114, 101, 97, 109, 32, 116, 111, 112, 32, 105,
      116, 101, 109>>

\* The id handle_xadd resolves: [raises, ts, seq].  `last` is the id
\* sorted(...)[-1] of a non-empty stream.
xadd_resolve(id, stream) ==
    LET parts == split(id)
        star == id = Star
        bad == ~star /\ (Len(parts) # 2 \/ ~int(parts[1]).ok
                         \/ (parts[2] # Star /\ ~int(parts[2]).ok))
        ts == IF star THEN now ELSE int(parts[1]).n
        last == split(SortedLast(stream))
    IN  IF bad THEN [raises |-> TRUE, ts |-> 0, seq |-> 0]
        ELSE [raises |-> FALSE, ts |-> ts,
              seq |-> IF star THEN 0
                      ELSE IF parts[2] # Star THEN int(parts[2]).n
                      ELSE IF Len(stream) = 0 THEN (IF ts # 0 THEN 0 ELSE 1)
                      ELSE IF ts = int(last[1]).n THEN int(last[2]).n + 1
                      ELSE IF ts # 0 THEN 0 ELSE 1]

handle_xadd(c, m) ==
    /\ pcH[c] = "read"
    /\ LET stream_key == m.a[2].s
           words == SubSeq(m.a, 4, Len(m.a))
           stream == DictGet(streams, stream_key, [val |-> <<>>]).val
           r == xadd_resolve(m.a[3].s, stream)
           stream_entry_id == str(r.ts) \o <<45>> \o str(r.seq)
           last == split(SortedLast(stream))
       IN  /\ Len(stream) < MaxStreamLen
           /\ IF Len(words) % 2 = 1 \/ r.raises
              THEN \* IndexError, ValueError: the handler task ends
                   /\ msg' = [msg EXCEPT ![c] = m]
                   /\ pcH' = [pcH EXCEPT ![c] = "dead"]
                   /\ UNCHANGED <<out, streams, datastore>>
              ELSE IF r.ts = 0 /\ r.seq = 0
              THEN /\ Handled(c, m, serialize_simple_error(ErrZeroId))
                   /\ UNCHANGED <<pcH, streams, datastore>>
              ELSE IF /\ Len(stream) > 0
                      /\ \/ r.ts < int(last[1]).n
                         \/ (r.ts <= int(last[1]).n /\ r.seq <= int(last[2]).n)
              THEN /\ Handled(c, m, serialize_simple_error(ErrNotGreater))
                   /\ UNCHANGED <<pcH, streams, datastore>>
              ELSE /\ streams' =
                        DictPut(streams, stream_key,
                                [key |-> stream_key,
                                 val |-> DictPut(stream, stream_entry_id,
                                                 [key |-> stream_entry_id,
                                                  val |-> stream_entry(words, 1, <<>>)])])
                   /\ datastore' = DictSet(datastore, stream_key,
                                           [t |-> "stream_key_type"],
                                           get_expiry_timestamp(<<>>))
                   /\ Handled(c, m, serialize_bulk_string(PyStr(stream_entry_id)))
                   /\ UNCHANGED pcH
    /\ UNCHANGED <<now, replVars, codecVars>>

\* The ids asked for: 0-1, 9-0, 9-1 and 10-0, which XADD can store, and
\* 5-0 and 9-5, which it cannot.
RangeIds ==
    {<<48, 45, 49>>, <<57, 45, 48>>, <<57, 45, 49>>, <<49, 48, 45, 48>>,
     <<53, 45, 48>>, <<57, 45, 53>>}
\* XRANGE k <start> <end>, where start may be "-" and end may be "+"
XrangeMsgs ==
    {Cmd(<<<<88, 82, 65, 78, 71, 69>>, k, s, e>>) :
        k \in XaddKeys, s \in RangeIds \cup {<<45>>}, e \in RangeIds \cup {<<43>>}}
\* XREAD streams k <id>
XreadMsgs ==
    {Cmd(<<<<88, 82, 69, 65, 68>>, <<115, 116, 114, 101, 97, 109, 115>>, k, id>>) :
        k \in XaddKeys, id \in RangeIds}

\* sorted(keys) for a list of distinct str.
RECURSIVE sorted(_)
sorted(keys) ==
    IF keys = <<>> THEN <<>>
    ELSE LET m == CHOOSE i \in 1..Len(keys) :
                      \A j \in 1..Len(keys) : ~StrLess(keys[j], keys[i])
         IN  <<keys[m]>>
             \o sorted(SubSeq(keys, 1, m - 1) \o SubSeq(keys, m + 1, Len(keys)))

\* bisect.bisect_left(a, x) on a sorted list: the number of elements below x.
bisect_left(a, x) == Cardinality({i \in 1..Len(a) : StrLess(a[i], x)})

\* a[lo:hi] for 0 <= lo and 0 <= hi
slice(a, lo, hi) == SubSeq(a, lo + 1, IF hi < Len(a) THEN hi ELSE Len(a))

fetch_stream_entries(stream, stream_keys, start_idx, end_idx) ==
    LET ks == slice(stream_keys, start_idx, end_idx + 1)
    IN  [i \in 1..Len(ks) |-> [key |-> ks[i], val |-> stream[DictIdx(stream, ks[i])].val]]

\* The field/value pairs of an entry as one flat list of str.
RECURSIVE d_as_list(_)
d_as_list(d) ==
    IF d = <<>> THEN <<>>
    ELSE <<PyStr(d[1].key), PyStr(d[1].val)>> \o d_as_list(Tail(d))

format_fetched_stream_entries_for_xrange(entries) ==
    [i \in 1..Len(entries) |->
        PyList(<<PyStr(entries[i].key), PyList(d_as_list(entries[i].val))>>)]

format_fetched_stream_entries_for_xread(entries, stream_key) ==
    <<PyStr(stream_key), PyList(format_fetched_stream_entries_for_xrange(entries))>>

\* streams.get(stream_key, []) of a key without a stream is a list, and
\* list has no keys(): AttributeError, the handler task ends.
handle_xrange(c, m) ==
    /\ pcH[c] = "read"
    /\ LET stream_key == m.a[2].s
           stream_entry_id_start == m.a[3].s
           stream_entry_id_end == m.a[4].s
           stream == DictGet(streams, stream_key, [val |-> <<>>]).val
           stream_keys == sorted(DictKeys(stream))
           start_idx == IF stream_entry_id_start = <<45>> THEN 0  \* "-"
                        ELSE bisect_left(stream_keys, stream_entry_id_start)
           end_idx == IF stream_entry_id_end = <<43>> THEN Len(stream_keys) - 1  \* "+"
                      ELSE bisect_left(stream_keys, stream_entry_id_end)
           output == format_fetched_stream_entries_for_xrange(
                         fetch_stream_entries(stream, stream_keys, start_idx, end_idx))
       IN  IF ~DictHas(streams, stream_key)
           THEN /\ msg' = [msg EXCEPT ![c] = m]
                /\ pcH' = [pcH EXCEPT ![c] = "dead"]
                /\ UNCHANGED out
           ELSE /\ Handled(c, m, serialize_array(output))
                /\ UNCHANGED pcH
    /\ UNCHANGED <<now, streams, datastore, replVars, codecVars>>

handle_xread(c, m) ==
    /\ pcH[c] = "read"
    /\ LET stream_key == m.a[3].s
           stream_entry_id_start == m.a[4].s
           stream == DictGet(streams, stream_key, [val |-> <<>>]).val
           stream_keys == sorted(DictKeys(stream))
           start_idx == bisect_left(stream_keys, stream_entry_id_start)
           end_idx == Len(stream_keys) - 1
           entries == fetch_stream_entries(stream, stream_keys, start_idx, end_idx)
           output == format_fetched_stream_entries_for_xread(entries, stream_key)
       IN  IF ~DictHas(streams, stream_key)
           THEN /\ msg' = [msg EXCEPT ![c] = m]
                /\ pcH' = [pcH EXCEPT ![c] = "dead"]
                /\ UNCHANGED out
           ELSE /\ Handled(c, m, serialize_array(<<PyList(output)>>))
                /\ UNCHANGED pcH
    /\ UNCHANGED <<now, streams, datastore, replVars, codecVars>>

TickStream ==
    /\ now < MaxStreamTime
    /\ now' = now + 1
    /\ UNCHANGED <<datastore, msg, out, pcH, streams, replVars, codecVars>>

InitStream ==
    /\ now \in {0, 9}
    /\ datastore = <<>>
    /\ msg = [c \in Conns |-> PyNone]
    /\ out = [c \in Conns |-> <<>>]
    /\ pcH = [c \in Conns |-> "read"]
    /\ streams = <<>>
    /\ ReplIdle
    /\ CodecIdle

Xadd == \E c \in KvClients, m \in XaddMsgs : handle_xadd(c, m)

NextStream == Xadd \/ TickStream

SpecStream == InitStream /\ [][NextStream]_vars

\* The range queries: a stream is filled by XADD with the ids written out
\* in full, and read by XRANGE and XREAD; the clock stands still.
XaddFullIds == {id \in XaddIds : \A i \in 1..Len(id) : id[i] # 42}

NextRange ==
    \/ \E c \in KvClients, m \in XaddMsgs : m.a[3].s \in XaddFullIds /\ handle_xadd(c, m)
    \/ \E c \in KvClients, m \in XrangeMsgs : handle_xrange(c, m)
    \/ \E c \in KvClients, m \in XreadMsgs : handle_xread(c, m)

SpecRange == InitStream /\ [][NextRange]_vars

(***************************************************************************)
(* Claims about streams                                                    *)
(***************************************************************************)
\* An id "<ms>-<seq>" as the pair of its numbers, and the numeric
\* lexicographic order on the pairs.
IdPair(id) == <<int(split(id)[1]).n, int(split(id)[2]).n>>
IdLess(a, b) ==
    IdPair(a)[1] < IdPair(b)[1]
    \/ (IdPair(a)[1] = IdPair(b)[1] /\ IdPair(a)[2] < IdPair(b)[2])
StreamOf(k) == DictGet(streams, k, [val |-> <<>>]).val
Accepted(c) == Len(out'[c]) > 0 /\ out'[c][1] = 36

\* C4: stream monotonicity.  The id an accepted XADD resolves is strictly
\* greater, in the numeric order on (ms, seq), than every id already in the
\* stream; in particular it overwrites no entry; and 0-0 is never stored.
C4_StreamMonotonic ==
    [][\A c \in KvClients, m \in XaddMsgs :
          (handle_xadd(c, m) /\ Accepted(c)) =>
             LET id == ReplyAfter(c).val.s
                 old == StreamOf(m.a[2].s)
             IN  /\ \A i \in 1..Len(old) : IdLess(old[i].key, id)
                 /\ IdPair(id) # <<0, 0>>
                 /\ \E i \in 1..Len(StreamOf(m.a[2].s)') :
                        StreamOf(m.a[2].s)'[i].key = id]_vars

(***************************************************************************)
(* The codec specification: a value is written by one of the writer's      *)
(* write_* methods, the bytes are read back by read_message, and           *)
(* get_byte_offset is applied to the value.                                *)
(***************************************************************************)
\* Arrays hold at most MaxArrayLen elements.
MaxArrayLen == 2

\* "", "a", "ab" and a str of ten characters (a two-digit length)
CodecStrs == {<<>>, <<97>>, <<97, 98>>, [i \in 1..10 |-> 97]}
CodecScalars ==
    {PyStr(t) : t \in CodecStrs} \cup {PyInt(n) : n \in {0, 12, -1}} \cup {PyNone}
CodecElements == CodecScalars \cup {PyList(<<>>), PyList(<<PyStr(<<97>>)>>)}
CodecArrays ==
    {PyList(a) : a \in UNION {[1..n -> CodecElements] : n \in 0..MaxArrayLen}}
\* Every value here is one read_message can return.
CodecMessages == CodecScalars \cup CodecArrays

InitCodec ==
    /\ now = 1
    /\ datastore = <<>>
    /\ msg = [c \in Conns |-> PyNone]
    /\ out = [c \in Conns |-> <<>>]
    /\ pcH = [c \in Conns |-> "read"]
    /\ streams = <<>>
    /\ ReplIdle
    /\ cmsg \in CodecMessages
    /\ cwire = <<>>
    /\ cread = NotRun
    /\ csize = NotRun
    /\ fhand = <<>>
    /\ rdb = NotRun
    /\ CONFIG = <<>>

codecRest == <<now, datastore, msg, out, pcH, streams, replVars, rdbVars, CONFIG>>

write_array ==
    /\ cwire = <<>> /\ cmsg.t = "list"
    /\ cwire' = serialize_array(cmsg.a)
    /\ UNCHANGED <<cmsg, cread, csize, codecRest>>

write_bulk_string ==
    /\ cwire = <<>> /\ cmsg.t \in {"str", "none"}
    /\ cwire' = serialize_bulk_string(cmsg)
    /\ UNCHANGED <<cmsg, cread, csize, codecRest>>

write_simple_string ==
    /\ cwire = <<>> /\ cmsg.t = "str"
    /\ cwire' = serialize_simple_string(cmsg.s)
    /\ UNCHANGED <<cmsg, cread, csize, codecRest>>

write_integer ==
    /\ cwire = <<>> /\ cmsg.t = "int"
    /\ cwire' = serialize_integer(cmsg.n)
    /\ UNCHANGED <<cmsg, cread, csize, codecRest>>

\* The reader decodes what was written.
ReadBack ==
    /\ cwire # <<>> /\ cread = NotRun
    /\ cread' = read_message(cwire)
    /\ UNCHANGED <<cmsg, cwire, csize, codecRest>>

ByteOffset ==
    /\ csize = NotRun
    /\ csize' = IF get_byte_offset_raises(cmsg) THEN TypeError
                ELSE PyInt(get_byte_offset(cmsg))
    /\ UNCHANGED <<cmsg, cwire, cread, codecRest>>

NextCodec ==
    \/ write_array \/ write_bulk_string \/ write_simple_string \/ write_integer
    \/ ReadBack \/ ByteOffset

SpecCodec == InitCodec /\ [][NextCodec]_vars

IsStrArray(v) == v.t = "list" /\ \A i \in 1..Len(v.a) : v.a[i].t = "str"

\* C7: byte-offset self-consistency.  For every array of strings (the empty
\* array and arrays holding the empty string included) get_byte_offset
\* returns the length of the bytes serialize_array produces for it.
C7_ByteOffsetIsSerializedLength ==
    (IsStrArray(cmsg) /\ cwire # <<>> /\ csize # NotRun)
        => csize = PyInt(Len(cwire))

\* C8: codec round-trip.  For every value the reader can decode, the bytes
\* the writer produces for it decode to an equal value, and decoding
\* consumes exactly the bytes written.
C8_CodecRoundTrip ==
    cread # NotRun => cread = Ok(cmsg, <<>>)

(***************************************************************************)
(* Replication: main.py handler and propagate task, replication.py         *)
(* replica_tasks, commands.py handle_wait                                  *)
(***************************************************************************)
MaxWrites == 2
MaxWaits == 2

CmdPING == <<80, 73, 78, 71>>
CmdREPLCONF == <<82, 69, 80, 76, 67, 79, 78, 70>>
CmdPSYNC == <<80, 83, 89, 78, 67>>
CmdWAIT == <<87, 65, 73, 84>>
StrACK == <<65, 67, 75>>
StrGETACK == <<71, 69, 84, 65, 67, 75>>
StrOK == <<79, 75>>
StrPONG == <<80, 79, 78, 71>>

\* The SET commands clients send while replicas are attached: one key, and
\* values that tell two writes apart (the empty value among them).
ReplValues == {<<97>>, <<98>>, <<>>}
ReplSetMsgs == {Cmd(<<CmdSET, <<107>>, v>>) : v \in ReplValues}

GetAckFrame == serialize_array(Cmd(<<CmdREPLCONF, StrGETACK, Star>>).a)

\* handle_wait's master_offset argument (0, or the size of the one GETACK
\* frame sent before), the messages WAIT 1 100 and WAIT 3 500, and the
\* client that sends them.
MasterOffsets == {0, Len(GetAckFrame)}
WaitMsgs ==
    {Cmd(<<CmdWAIT, <<49>>, <<49, 48, 48>>>>), Cmd(<<CmdWAIT, <<51>>, <<53, 48, 48>>>>)}
WaitClients == {"c1"}

\* The same frames with PSYNC sent before the second REPLCONF.
HandshakeFrames_psync_early ==
    << serialize_array(Cmd(<<CmdPING>>).a),
       serialize_array(Cmd(<<CmdREPLCONF, <<108, 105, 115, 116, 101, 110, 105, 110, 103, 45, 112, 111, 114, 116>>, <<54, 51, 56, 48>>>>).a),
       serialize_array(Cmd(<<CmdPSYNC, <<63>>, <<45, 49>>>>).a),
       serialize_array(Cmd(<<CmdREPLCONF, <<99, 97, 112, 97>>, <<112, 115, 121, 110, 99, 50>>, <<99, 97, 112, 97>>, <<112, 115, 121, 110, 99, 50>>>>).a) >>

\* The frames of replication_handshake, in the order it writes them.
HandshakeFrames ==
    << serialize_array(Cmd(<<CmdPING>>).a),
       serialize_array(Cmd(<<CmdREPLCONF, <<108, 105, 115, 116, 101, 110, 105, 110, 103, 45, 112, 111, 114, 116>>, <<54, 51, 56, 48>>>>).a),
       serialize_array(Cmd(<<CmdREPLCONF, <<99, 97, 112, 97>>, <<112, 115, 121, 110, 99, 50>>, <<99, 97, 112, 97>>, <<112, 115, 121, 110, 99, 50>>>>).a),
       serialize_array(Cmd(<<CmdPSYNC, <<63>>, <<45, 49>>>>).a) >>

\* generate_random_string(40): forty characters of [a-z0-9]; the model
\* takes one such string, its content is never read.
generate_random_string(length) == [i \in 1..length |-> 120]

\* handle_psync's line: "FULLRESYNC <replid> 0"
FullResync ==
    serialize_simple_string(<<70, 85, 76, 76, 82, 69, 83, 89, 78, 67, 32>> \o generate_random_string(40) \o <<32, 48>>)

\* handle_rdb_transfer: b"$88\r\n" and the 88 bytes of the empty RDB file,
\* no CRLF after them.
RdbBytes ==
    <<
      82, 69, 68, 73, 83, 48, 48, 49, 49, 250, 9, 114, 101, 100, 105, 115,
      45, 118, 101, 114, 5, 55, 46, 50, 46, 48, 250, 10, 114, 101, 100, 105,
      115, 45, 98, 105, 116, 115, 192, 64, 250, 5, 99, 116, 105, 109, 101, 194,
      109, 8, 188, 101, 250, 8, 117, 115, 101, 100, 45, 109, 101, 109, 194, 176,
      196, 16, 0, 250, 8, 97, 111, 102, 45, 98, 97, 115, 101, 192, 0, 255,
      240, 110, 59, 254, 192, 255, 90, 162
    >>
\* A bulk string's framing of the snapshot, with the trailing CRLF that
\* handle_rdb_transfer leaves out.
RdbFrame_trailing_crlf == <<36>> \o str(Len(RdbBytes)) \o CRLF \o RdbBytes \o CRLF

RdbFrame == <<36>> \o str(Len(RdbBytes)) \o CRLF \o RdbBytes

\* What no replication step touches.
kvRest == <<now, streams, codecVars>>

(***************************************************************************)
(* replication.py: the replica process                                     *)
(***************************************************************************)
\* replication_handshake: PING, REPLCONF, REPLCONF, PSYNC, each sent after
\* the reply to the one before was read; then the FULLRESYNC line and the
\* RDB payload are read.  rpc is "start", "hs1".."hs5", then "loop".
HsPc == <<"hs1", "hs2", "hs3", "hs4", "hs5">>

replication_handshake(r) ==
    /\ \/ /\ rpc[r] = "start"
          /\ toPrimary' = [toPrimary EXCEPT ![r] = @ \o HandshakeFrames[1]]
          /\ rpc' = [rpc EXCEPT ![r] = HsPc[1]]
          /\ UNCHANGED <<toReplica, offset>>
       \/ \E n \in 1..3 :
            /\ rpc[r] = HsPc[n]
            /\ LET l == read_simple_string(toReplica[r])
               IN  /\ l.st = "ok"
                   /\ toReplica' = [toReplica EXCEPT ![r] = l.rest]
            /\ toPrimary' = [toPrimary EXCEPT ![r] = @ \o HandshakeFrames[n + 1]]
            /\ rpc' = [rpc EXCEPT ![r] = HsPc[n + 1]]
            /\ UNCHANGED offset
       \/ /\ rpc[r] = HsPc[4]
          /\ LET l == read_simple_string(toReplica[r])
             IN  /\ l.st = "ok"
                 /\ toReplica' = [toReplica EXCEPT ![r] = l.rest]
          /\ rpc' = [rpc EXCEPT ![r] = HsPc[5]]
          /\ UNCHANGED <<toPrimary, offset>>
       \/ /\ rpc[r] = HsPc[5]
          /\ LET d == read_rdb(toReplica[r])
             IN  /\ d.st = "ok"
                 /\ toReplica' = [toReplica EXCEPT ![r] = d.rest]
          /\ rpc' = [rpc EXCEPT ![r] = "loop"]
          /\ offset' = [offset EXCEPT ![r] = 0]
          /\ UNCHANGED toPrimary
    /\ UNCHANGED <<datastore, msg, out, pcH, kvRest, replication_buffer, replicas,
                   prop, rstore, wait, budget, writes, queued, applied, consumed>>

\* msg[0].upper() of a decoded message; <<>> stands for the cases where the
\* expression raises (None, an int, an empty list or str, a non-str head).
command_of(m) ==
    IF HasLen(m) /\ PyLen(m) > 0 /\ PyItems(m)[1].t = "str"
    THEN upper(PyItems(m)[1].s)
    ELSE <<>>

\* The key a dict is indexed by: the characters of a str, else the value.
dict_key(k) == IF k.t = "str" THEN k.s ELSE k

\* One turn of replica_tasks' loop: read a message, apply a SET or answer a
\* REPLCONF, then add get_byte_offset(msg) to offset.  An exception other
\* than IncompleteReadError and ConnectionResetError ends the task ("dead").
replica_tasks(r) ==
    /\ rpc[r] = "loop"
    /\ LET rd == read_message(toReplica[r])
       IN  /\ rd.st = "ok"
           /\ LET m == rd.val
                  frame == SubSeq(toReplica[r], 1, Len(toReplica[r]) - Len(rd.rest))
                  command == command_of(m)
                  is_set == command = CmdSET /\ m.t = "list"
                  is_replconf == command = CmdREPLCONF /\ m.t = "list"
                  raises_early == command = <<>> \/ (is_set /\ Len(m.a) < 3)
                  raises == raises_early \/ get_byte_offset_raises(m)
              IN  /\ toReplica' = [toReplica EXCEPT ![r] = rd.rest]
                  /\ consumed' = [consumed EXCEPT ![r] = @ + Len(frame)]
                  /\ rstore' = IF is_set /\ ~raises_early
                               THEN [rstore EXCEPT ![r] =
                                       DictSet(@, dict_key(m.a[2]), m.a[3],
                                               EXPIRY_TIMESTAMP_DEFAULT_VAL)]
                               ELSE rstore
                  /\ applied' = IF is_set /\ ~raises_early
                                THEN [applied EXCEPT ![r] = Append(@, frame)]
                                ELSE applied
                  /\ toPrimary' = IF is_replconf
                                  THEN [toPrimary EXCEPT ![r] = @ \o
                                         serialize_array(
                                           Cmd(<<CmdREPLCONF, StrACK, str(offset[r])>>).a)]
                                  ELSE toPrimary
                  /\ offset' = IF raises THEN offset
                               ELSE [offset EXCEPT ![r] = @ + get_byte_offset(m)]
                  /\ rpc' = IF raises THEN [rpc EXCEPT ![r] = "dead"] ELSE rpc
    /\ UNCHANGED <<datastore, msg, out, pcH, kvRest, replication_buffer, replicas,
                   prop, wait, budget, writes, queued>>

(***************************************************************************)
(* main.py: the handler of a replica's connection                          *)
(***************************************************************************)
\* A handle_wait of some client is waiting for data on r's reader.
wait_blocked_on(r) ==
    \E c \in Clients :
        /\ pcH[c] = "wait_blocked"
        /\ wait[c].i <= Len(replicas)
        /\ replicas[wait[c].i] = r

\* The handler reads one message from the replica and dispatches it: PING,
\* REPLCONF (a REPLCONF ACK included) and PSYNC; it then waits in the
\* drain of its reply.
handler_replica(r) ==
    /\ pcH[r] = "read"
    /\ LET rd == read_message(toPrimary[r])
       IN  /\ rd.st = "ok"
           /\ msg' = [msg EXCEPT ![r] = rd.val]
           /\ toPrimary' = [toPrimary EXCEPT ![r] = rd.rest]
           /\ LET command == command_of(rd.val)
              IN  CASE command = CmdPING ->
                         /\ toReplica' = [toReplica EXCEPT ![r] =
                                            @ \o serialize_simple_string(StrPONG)]
                         /\ pcH' = [pcH EXCEPT ![r] = "drain"]
                    [] command = CmdREPLCONF ->
                         /\ toReplica' = [toReplica EXCEPT ![r] =
                                            @ \o serialize_simple_string(StrOK)]
                         /\ pcH' = [pcH EXCEPT ![r] = "drain"]
                    [] command = CmdPSYNC ->
                         /\ toReplica' = [toReplica EXCEPT ![r] = @ \o FullResync]
                         /\ pcH' = [pcH EXCEPT ![r] = "psync_rdb"]
                    [] OTHER ->
                         /\ pcH' = [pcH EXCEPT ![r] = "dead"]
                         /\ UNCHANGED toReplica
    /\ UNCHANGED <<datastore, out, kvRest, replication_buffer, replicas, prop,
                   rpc, offset, rstore, wait, budget, writes, queued, applied,
                   consumed>>

\* The handler resumes after a drain: PSYNC goes on to the RDB payload and
\* then appends the connection to replicas; any other command returns to
\* read_message, which raises RuntimeError when a handle_wait is already
\* waiting on the same StreamReader.
handler_replica_resume(r) ==
    /\ \/ /\ pcH[r] = "psync_rdb"
          /\ toReplica' = [toReplica EXCEPT ![r] = @ \o RdbFrame]
          /\ pcH' = [pcH EXCEPT ![r] = "psync_reg"]
          /\ UNCHANGED replicas
       \/ /\ pcH[r] = "psync_reg"
          /\ replicas' = Append(replicas, r)
          /\ pcH' = [pcH EXCEPT ![r] = "read"]
          /\ UNCHANGED toReplica
       \/ /\ pcH[r] = "drain"
          /\ pcH' = [pcH EXCEPT ![r] =
                       IF wait_blocked_on(r) /\ read_message(toPrimary[r]).st # "ok"
                       THEN "dead" ELSE "read"]
          /\ UNCHANGED <<toReplica, replicas>>
    /\ UNCHANGED <<datastore, msg, out, kvRest, replication_buffer, toPrimary,
                   prop, rpc, offset, rstore, wait, budget, writes, queued,
                   applied, consumed>>

(***************************************************************************)
(* main.py: SET on a client connection, and the propagation task           *)
(***************************************************************************)
\* case "SET": handle_set updates the datastore and writes +OK; the handler
\* is then suspended in the drain of that write.
handler_set(c, m) ==
    /\ pcH[c] = "read"
    /\ budget.sets > 0
    /\ datastore' = DictSet(datastore, m.a[2].s, m.a[3], get_expiry_timestamp(m.a))
    /\ Handled(c, m, serialize_simple_string(StrOK))
    /\ pcH' = [pcH EXCEPT ![c] = "set_drain"]
    /\ budget' = [budget EXCEPT !.sets = @ - 1]
    /\ writes' = Append(writes, serialize_array(m.a))
    /\ UNCHANGED <<kvRest, replication_buffer, replicas, toReplica, toPrimary,
                   prop, rpc, offset, rstore, wait, queued, applied, consumed>>

\* ... and, resumed, serializes msg and appends it to replication_buffer.
handler_set_resume(c) ==
    /\ pcH[c] = "set_drain"
    /\ replication_buffer' = Append(replication_buffer, serialize_array(msg[c].a))
    /\ queued' = Append(queued, serialize_array(msg[c].a))
    /\ pcH' = [pcH EXCEPT ![c] = "read"]
    /\ UNCHANGED <<datastore, msg, out, kvRest, replicas, toReplica, toPrimary,
                   prop, rpc, offset, rstore, wait, budget, writes, applied,
                   consumed>>

\* Every write to a replica finds its connection gone.
link_always_lost(r) == "lost"

\* RESPWriter.write on the primary's end of replica r's connection:
\* StreamWriter.write, then drain.  Once the handler of r has closed the
\* writer (write_eof, close), write raises RuntimeError ("lost"); while
\* the replica has stopped reading, the bytes stay buffered and drain does
\* not return ("stalled").
link(r) ==
    IF pcH[r] = "closed" THEN "lost"
    ELSE IF rpc[r] = "stalled" THEN "stalled" ELSE "open"

\* propagate_commands: with a replica registered and a frame queued, pop the
\* frame and write it to each replica in turn, suspended in the drain after
\* each write; then sleep WAIT_TIME.  An exception of a write ends the task
\* ("dead"); a drain that does not return holds it for ever ("stuck").
propagate_commands ==
    /\ \/ /\ prop.pc = "poll"
          /\ Len(replicas) # 0
          /\ Len(replication_buffer) # 0
          /\ replication_buffer' = Tail(replication_buffer)
          /\ toReplica' = IF link(replicas[1]) = "lost" THEN toReplica
                          ELSE [toReplica EXCEPT ![replicas[1]] =
                                  @ \o Head(replication_buffer)]
          /\ prop' = [pc |-> CASE link(replicas[1]) = "lost" -> "dead"
                               [] link(replicas[1]) = "stalled" -> "stuck"
                               [] OTHER -> "write",
                      cmd |-> Head(replication_buffer), i |-> 2]
       \/ /\ prop.pc = "write"
          /\ prop.i <= Len(replicas)
          /\ toReplica' = IF link(replicas[prop.i]) = "lost" THEN toReplica
                          ELSE [toReplica EXCEPT ![replicas[prop.i]] = @ \o prop.cmd]
          /\ prop' = [prop EXCEPT !.i = @ + 1,
                                  !.pc = CASE link(replicas[prop.i]) = "lost" -> "dead"
                                           [] link(replicas[prop.i]) = "stalled" -> "stuck"
                                           [] OTHER -> "write"]
          /\ UNCHANGED replication_buffer
       \/ /\ prop.pc = "write"
          /\ prop.i > Len(replicas)
          /\ prop' = PropPoll
          /\ UNCHANGED <<replication_buffer, toReplica>>
    /\ UNCHANGED <<datastore, msg, out, pcH, kvRest, replicas, toPrimary, rpc,
                   offset, rstore, wait, budget, writes, queued, applied, consumed>>

(***************************************************************************)
(* commands.py: handle_wait                                                *)
(*                                                                         *)
(* main.py calls handle_wait(writer, replicas); the function takes         *)
(* (writer, replicas, master_offset, msg).  Here master_offset and msg are *)
(* inputs of the call.  wait[c] holds the locals; its field elapsed is the *)
(* time in ms since start_time (sleeps and timed-out reads only), sent the *)
(* replicas a GETACK was written to, acks what the gather read.            *)
(***************************************************************************)
\* line 235: an ACK counts when its offset has reached the master offset.
ack_counts_any_offset(repl_offset, master_offset) == TRUE

ack_counts(repl_offset, master_offset) == repl_offset >= master_offset

\* line 249: await writer.write_integer(response); return
wait_write(c, w) ==
    /\ out' = [out EXCEPT ![c] = serialize_integer(w.response)]
    /\ wait' = [wait EXCEPT ![c] = [w EXCEPT !.replied = TRUE]]
    /\ pcH' = [pcH EXCEPT ![c] = "read"]

\* lines 242-249: sleep for what is left of the timeout when the count is
\* below num_replicas, then reply.
wait_end(c, w) ==
    IF w.response < w.num_replicas /\ w.master_offset # 0
    THEN /\ wait' = [wait EXCEPT ![c] = [w EXCEPT !.slept = TRUE]]
         /\ pcH' = [pcH EXCEPT ![c] = "wait_final"]
         /\ UNCHANGED out
    ELSE wait_write(c, w)

\* lines 215-218: the call, up to its first sleep.
handle_wait(c, master_offset, m) ==
    /\ pcH[c] = "read"
    /\ budget.waits > 0
    /\ budget' = [budget EXCEPT !.waits = @ - 1]
    /\ msg' = [msg EXCEPT ![c] = m]
    /\ wait' = [wait EXCEPT ![c] = [WaitIdle EXCEPT !.master_offset = master_offset]]
    /\ pcH' = [pcH EXCEPT ![c] = "wait_sleep"]
    /\ UNCHANGED <<datastore, out, kvRest, replication_buffer, replicas, toReplica,
                   toPrimary, prop, rpc, offset, rstore, writes, queued, applied,
                   consumed>>

\* lines 218-225: after sleep(0.125) the arguments are parsed; with
\* master_offset = 0 the reply is len(replicas); otherwise GETACK is
\* written to each replica in turn, a drain after each.  The exception of
\* a write is caught nowhere and ends the client's handler ("dead"); a
\* drain that does not return holds it for ever ("wait_stuck").
handle_wait_send(c) ==
    /\ \/ /\ pcH[c] = "wait_sleep"
          /\ LET n == int(msg[c].a[2].s)
                 t == int(msg[c].a[3].s)
                 w == [wait[c] EXCEPT !.elapsed = 125, !.num_replicas = n.n,
                                      !.timeout = t.n]
             IN  IF ~n.ok \/ ~t.ok
                 THEN /\ pcH' = [pcH EXCEPT ![c] = "dead"]
                      /\ UNCHANGED <<wait, out, toReplica>>
                 ELSE IF w.master_offset = 0
                 THEN /\ wait_end(c, [w EXCEPT !.response = Len(replicas)])
                      /\ UNCHANGED toReplica
                 ELSE IF Len(replicas) = 0
                 THEN /\ wait_end(c, [w EXCEPT !.response = w.updated_replicas])
                      /\ UNCHANGED toReplica
                 ELSE IF link(replicas[1]) = "lost"
                 THEN /\ wait' = [wait EXCEPT ![c] = w]
                      /\ pcH' = [pcH EXCEPT ![c] = "dead"]
                      /\ UNCHANGED <<out, toReplica>>
                 ELSE /\ toReplica' = [toReplica EXCEPT ![replicas[1]] = @ \o GetAckFrame]
                      /\ wait' = [wait EXCEPT ![c] =
                                    [w EXCEPT !.i = 2, !.sent = <<replicas[1]>>]]
                      /\ pcH' = [pcH EXCEPT ![c] =
                                   IF link(replicas[1]) = "stalled" THEN "wait_stuck"
                                   ELSE "wait_send"]
                      /\ UNCHANGED out
       \/ /\ pcH[c] = "wait_send"
          /\ wait[c].i <= Len(replicas)
          /\ IF link(replicas[wait[c].i]) = "lost"
             THEN /\ pcH' = [pcH EXCEPT ![c] = "dead"]
                  /\ UNCHANGED <<wait, toReplica>>
             ELSE /\ toReplica' = [toReplica EXCEPT ![replicas[wait[c].i]] =
                                     @ \o GetAckFrame]
                  /\ wait' = [wait EXCEPT ![c] =
                                [@ EXCEPT !.i = @ + 1,
                                          !.sent = Append(@, replicas[wait[c].i])]]
                  /\ pcH' = [pcH EXCEPT ![c] =
                               IF link(replicas[wait[c].i]) = "stalled"
                               THEN "wait_stuck" ELSE "wait_send"]
          /\ UNCHANGED out
       \/ /\ pcH[c] = "wait_send"
          /\ wait[c].i > Len(replicas)
          /\ wait' = [wait EXCEPT ![c] = [@ EXCEPT !.i = 1]]
          /\ pcH' = [pcH EXCEPT ![c] = "wait_gather"]
          /\ UNCHANGED <<out, toReplica>>
    /\ UNCHANGED <<datastore, msg, kvRest, replication_buffer, replicas, toPrimary,
                   prop, rpc, offset, rstore, budget, writes, queued, applied,
                   consumed>>

\* lines 232-236 for a response that was read: count it, or raise.
wait_response(c, r, rd) ==
    LET w == wait[c]
        response == rd.val
        raises ==
            \/ response.t # "list"
            \/ Len(response.a) = 0
            \/ /\ response.a[1] = PyStr(CmdREPLCONF)
               /\ \/ Len(response.a) < 2
                  \/ /\ response.a[2] = PyStr(StrACK)
                     /\ \/ Len(response.a) < 3
                        \/ response.a[3].t # "str"
                        \/ ~int(response.a[3].s).ok
        is_ack == /\ ~raises
                  /\ response.a[1] = PyStr(CmdREPLCONF)
                  /\ response.a[2] = PyStr(StrACK)
        counted == is_ack /\ ack_counts(int(response.a[3].s).n, w.master_offset)
    IN  /\ toPrimary' = [toPrimary EXCEPT ![r] = rd.rest]
        /\ IF raises
           THEN /\ pcH' = [pcH EXCEPT ![c] = "dead"]
                /\ UNCHANGED wait
           ELSE /\ pcH' = [pcH EXCEPT ![c] = "wait_gather"]
                /\ wait' = [wait EXCEPT ![c] =
                              [w EXCEPT !.updated_replicas = IF counted THEN @ + 1 ELSE @,
                                        !.i = @ + 1,
                                        !.acks = Append(@, [r |-> r, response |-> response])]]

\* lines 227-236: the gather.  For the next replica, read_array with
\* skip_first_byte under a 125 ms deadline: a frame already in the reader is
\* read at once; with none, the read raises RuntimeError if another task is
\* waiting on that StreamReader, and else waits ("wait_blocked").
handle_wait_gather(c) ==
    /\ pcH[c] \in {"wait_gather", "wait_blocked"}
    /\ wait[c].i <= Len(replicas)
    /\ LET r == replicas[wait[c].i]
           rd == read_array(toPrimary[r], TRUE)
       IN  IF rd.st = "ok"
           THEN wait_response(c, r, rd)
           ELSE /\ pcH[c] = "wait_gather"
                /\ pcH' = [pcH EXCEPT ![c] =
                             IF \/ rd.st = "error" \/ pcH[r] = "read"
                                \/ wait_blocked_on(r)
                                \/ pcH[r] = "closed"  \* IncompleteReadError at EOF
                             THEN "dead" ELSE "wait_blocked"]
                /\ UNCHANGED <<wait, toPrimary>>
    /\ UNCHANGED <<datastore, msg, out, kvRest, replication_buffer, replicas,
                   toReplica, prop, rpc, offset, rstore, budget, writes, queued,
                   applied, consumed>>

\* lines 237-238: the deadline of a waiting read passes.
handle_wait_timeout(c) ==
    /\ pcH[c] = "wait_blocked"
    /\ wait' = [wait EXCEPT ![c] = [@ EXCEPT !.i = @ + 1, !.elapsed = @ + 125]]
    /\ pcH' = [pcH EXCEPT ![c] = "wait_gather"]
    /\ UNCHANGED <<datastore, msg, out, kvRest, replication_buffer, replicas,
                   toReplica, toPrimary, prop, rpc, offset, rstore, budget, writes,
                   queued, applied, consumed>>

\* lines 240-249: the gather is over; response = updated_replicas, then the
\* remaining sleep if any, then the reply.
handle_wait_reply(c) ==
    /\ \/ /\ pcH[c] = "wait_gather"
          /\ wait[c].i > Len(replicas)
          /\ wait_end(c, [wait[c] EXCEPT !.response = wait[c].updated_replicas])
       \/ /\ pcH[c] = "wait_final"
          /\ LET w == wait[c]
                 t == IF w.timeout - w.elapsed > 0 THEN w.timeout - w.elapsed ELSE 0
             IN  wait_write(c, [w EXCEPT !.elapsed = @ + t])
    /\ UNCHANGED <<datastore, msg, kvRest, replication_buffer, replicas, toReplica,
                   toPrimary, prop, rpc, offset, rstore, budget, writes, queued,
                   applied, consumed>>

(***************************************************************************)
(* Failures of a replica's connection                                      *)
(***************************************************************************)
\* main.py 55-60: the replica goes away and its connection ends while the
\* handler waits in read_message: IncompleteReadError (or
\* ConnectionResetError), the handler closes the writer and returns.
handler_eof(r) ==
    /\ pcH[r] = "read"
    /\ rpc[r] = "loop"
    /\ toPrimary[r] = <<>>
    /\ \E i \in 1..Len(replicas) : replicas[i] = r
    /\ pcH' = [pcH EXCEPT ![r] = "closed"]
    /\ rpc' = [rpc EXCEPT ![r] = "dead"]
    /\ UNCHANGED <<datastore, msg, out, kvRest, replication_buffer, replicas,
                   toReplica, toPrimary, prop, offset, rstore, wait, budget,
                   writes, queued, applied, consumed>>

\* The replica stops reading its connection; it stays open.
replica_stalls(r) ==
    /\ rpc[r] = "loop"
    /\ \E i \in 1..Len(replicas) : replicas[i] = r
    /\ rpc' = [rpc EXCEPT ![r] = "stalled"]
    /\ UNCHANGED <<datastore, msg, out, pcH, kvRest, replication_buffer, replicas,
                   toReplica, toPrimary, prop, offset, rstore, wait, budget,
                   writes, queued, applied, consumed>>

\* Frames whose leading byte is none of + - : $ * : "!\r\n" and the inline
\* command "PING\r\n".
BadFrames == {<<33, 13, 10>>, <<80, 73, 78, 71, 13, 10>>}

\* main.py 53-61: read_message raises RuntimeError for such a frame; the
\* handler catches IncompleteReadError and ConnectionResetError only, so
\* its task ends with the exception and writer.close() is not reached
\* ("aborted": the connection stays open and is served no more).  What the
\* stream protocol does with a handler that ended by an exception depends
\* on the Python version: it leaves the transport open, or closes it
\* ("closed").
handler_bad_frame(c, buf) ==
    /\ pcH[c] = "read"
    /\ read_message(buf).st = "error"
    /\ \E pc \in {"aborted", "closed"} : pcH' = [pcH EXCEPT ![c] = pc]
    /\ UNCHANGED <<datastore, msg, out, kvRest, replVars>>

(***************************************************************************)
(* The replication specification: a primary with its clients, the          *)
(* propagation task, and the replicas attaching to it                      *)
(***************************************************************************)
InitBase ==
    /\ now = 1
    /\ datastore = <<>>
    /\ msg = [c \in Conns |-> PyNone]
    /\ out = [c \in Conns |-> <<>>]
    /\ pcH = [c \in Conns |-> "read"]
    /\ streams = <<>>
    /\ CodecIdle

\* Clients write while one replica attaches.
InitRepl == InitBase /\ ReplStart(MaxWrites, 0, {"r1"})

\* A client sends WAIT commands while two replicas attach.
InitWait == InitBase /\ ReplStart(0, MaxWaits, Replicas)

Handshake == \E r \in Replicas : replication_handshake(r)
ReplicaLoop == \E r \in Replicas : replica_tasks(r)
HandlerReplica == \E r \in Replicas : handler_replica(r)
HandlerReplicaResume == \E r \in Replicas : handler_replica_resume(r)
HandlerSet == \E c \in Clients, m \in ReplSetMsgs : handler_set(c, m)
HandlerSetResume == \E c \in Clients : handler_set_resume(c)
Wait == \E c \in WaitClients, o \in MasterOffsets, m \in WaitMsgs : handle_wait(c, o, m)
WaitSend == \E c \in Clients : handle_wait_send(c)
WaitGather == \E c \in Clients : handle_wait_gather(c)
WaitTimeout == \E c \in Clients : handle_wait_timeout(c)
WaitReply == \E c \in Clients : handle_wait_reply(c)

NextRepl ==
    \/ Handshake \/ ReplicaLoop \/ HandlerReplica \/ HandlerReplicaResume
    \/ HandlerSet \/ HandlerSetResume \/ propagate_commands

NextWait ==
    \/ Handshake \/ ReplicaLoop \/ HandlerReplica \/ HandlerReplicaResume
    \/ Wait \/ WaitSend \/ WaitGather \/ WaitTimeout \/ WaitReply

SpecRepl == InitRepl /\ [][NextRepl]_vars

SpecWait == InitWait /\ [][NextWait]_vars

(***************************************************************************)
(* The replica's loop alone: a replica that has finished the handshake,    *)
(* with up to MaxFrames frames from a primary in its reader                *)
(***************************************************************************)
MaxFrames == 3

\* The frames a primary sends: its SET frames (serialize_array writes the
\* empty value as a null bulk), a SET with a TTL (SET k a PX 1), GETACK,
\* and PING as a command the replica ignores.
ReplicaFrames ==
    {serialize_array(m.a) : m \in ReplSetMsgs}
        \cup {serialize_array(Cmd(<<CmdSET, <<107>>, <<97>>, <<80, 88>>, <<49>>>>).a),
              GetAckFrame, serialize_array(Cmd(<<CmdPING>>).a)}

RECURSIVE Concat(_)
Concat(frames) ==
    IF Len(frames) = 0 THEN <<>> ELSE Head(frames) \o Concat(Tail(frames))

InitFrames ==
    /\ InitBase
    /\ ReplQuiet(0, 0)
    /\ rpc = [r \in Replicas |-> IF r = "r1" THEN "loop" ELSE "off"]
    /\ \E fs \in UNION {[1..n -> ReplicaFrames] : n \in 1..MaxFrames} :
          toReplica = [r \in Replicas |-> IF r = "r1" THEN Concat(fs) ELSE <<>>]

NextFrames == ReplicaLoop

SpecFrames == InitFrames /\ [][NextFrames]_vars

(***************************************************************************)
(* Claims about replication                                                *)
(***************************************************************************)
\* a is a subsequence of b: b with some elements left out.
RECURSIVE IsSubseq(_, _)
IsSubseq(a, b) ==
    IF Len(a) = 0 THEN TRUE
    ELSE IF Len(b) = 0 THEN FALSE
    ELSE IF Head(a) = Head(b) THEN IsSubseq(Tail(a), Tail(b))
    ELSE IsSubseq(a, Tail(b))

\* C5: propagation preserves write order under interleaving.  The SET frames
\* enter the propagation queue in the order in which the SETs updated the
\* keyspace, on whichever client connections they arrived, and every
\* replica applies them in that order, with the handlers suspended at
\* their drains.
C5_PropagationPreservesWriteOrder ==
    /\ IsSubseq(queued, writes)
    /\ \A r \in Replicas : IsSubseq(applied[r], writes)

\* The frame a step of the replica's loop took off the wire.
FrameTaken(r) == SubSeq(toReplica[r], 1, Len(toReplica[r]) - Len(toReplica'[r]))

\* C6: replica ACK offset.  Each frame the replica's loop processes adds its
\* wire length to the offset, which never decreases, and the reply to a
\* GETACK carries the summed wire lengths of the frames processed before
\* it, the GETACK itself excluded.
C6_ReplicaAckOffset ==
    [][\A r \in Replicas :
          (rpc[r] = "loop" /\ Len(toReplica'[r]) < Len(toReplica[r]))
          => /\ offset'[r] = offset[r] + Len(FrameTaken(r))
             /\ offset'[r] >= offset[r]
             /\ FrameTaken(r) = GetAckFrame
                  => toPrimary'[r] = toPrimary[r] \o
                       serialize_array(Cmd(<<CmdREPLCONF, StrACK, str(consumed[r])>>).a)]_vars

\* The response is a REPLCONF ACK whose offset is at least master_offset.
IsAckAtLeast(response, master_offset) ==
    /\ response.t = "list"
    /\ Len(response.a) >= 3
    /\ response.a[1] = PyStr(CmdREPLCONF)
    /\ response.a[2] = PyStr(StrACK)
    /\ response.a[3].t = "str"
    /\ int(response.a[3].s).ok
    /\ int(response.a[3].s).n >= master_offset

\* The replicas whose ACK, read by the gather, is at least master_offset.
AckedReplicas(w) ==
    {w.acks[j].r : j \in {i \in 1..Len(w.acks) :
                            IsAckAtLeast(w.acks[i].response, w.master_offset)}}

C10_WaitFastPath ==
    [][\A c \in Clients :
          (wait[c].master_offset = 0 /\ ~wait[c].replied /\ wait'[c].replied)
          => /\ out'[c] = serialize_integer(Len(replicas))
             /\ wait'[c].sent = <<>>
             /\ wait'[c].elapsed = 0]_vars

\* C11: WAIT is bounded by its timeout.  Whatever the number of registered
\* replicas, whichever of them answer late or never, and whatever
\* timeout_ms is, the reply to WAIT n timeout_ms is written no later than
\* timeout_ms after the command was received.
C11_WaitBoundedByTimeout ==
    [][\A c \in Clients :
          (~wait[c].replied /\ wait'[c].replied)
          => wait'[c].elapsed <= wait'[c].timeout]_vars

\* The commands of the handshake and the replies a primary gives to them,
\* as bytes on the wire.
ExpectedCommands ==
    << <<42, 49, 13, 10, 36, 52, 13, 10>> \o CmdPING \o CRLF,
       serialize_array(Cmd(<<CmdREPLCONF, <<108, 105, 115, 116, 101, 110, 105, 110, 103, 45, 112, 111, 114, 116>>, <<54, 51, 56, 48>>>>).a),
       serialize_array(Cmd(<<CmdREPLCONF, <<99, 97, 112, 97>>, <<112, 115, 121, 110, 99, 50>>, <<99, 97, 112, 97>>, <<112, 115, 121, 110, 99, 50>>>>).a),
       serialize_array(Cmd(<<CmdPSYNC, <<63>>, <<45, 49>>>>).a) >>
ExpectedReplies ==
    << <<43>> \o StrPONG \o CRLF, <<43>> \o StrOK \o CRLF, <<43>> \o StrOK \o CRLF >>

ResolvedId(m) ==
    LET r == xadd_resolve(m.a[3].s, StreamOf(m.a[2].s))
    IN  str(r.ts) \o <<45>> \o str(r.seq)
XaddRejected(c) ==
    /\ UNCHANGED <<streams, datastore, replication_buffer, queued>>
    /\ pcH'[c] = "read"

\* C13: a rejected XADD changes nothing.  An XADD whose resolved id is 0-0
\* is answered with the error "ERR The ID specified in XADD must be greater
\* than 0-0"; one whose resolved id is not greater, in the numeric order,
\* than an id of the stream is answered with "ERR The ID specified in XADD
\* is equal or smaller than the target stream top item"; in both cases the
\* stream, the keyspace and the propagation queue are as before and the
\* connection goes on reading.
C13_RejectedXaddChangesNothing ==
    [][\A c \in KvClients, m \in XaddMsgs :
          handle_xadd(c, m) =>
             LET id == ResolvedId(m)
                 old == StreamOf(m.a[2].s)
             IN  /\ IdPair(id) = <<0, 0>> =>
                      /\ out'[c] = serialize_simple_error(ErrZeroId)
                      /\ XaddRejected(c)
                 /\ (IdPair(id) # <<0, 0>>
                     /\ \E i \in 1..Len(old) : ~IdLess(old[i].key, id)) =>
                      /\ out'[c] = serialize_simple_error(ErrNotGreater)
                      /\ XaddRejected(c)]_vars

\* The greatest id of a non-empty stream in the numeric order on (ms, seq).
TopId(stream) ==
    CHOOSE id \in {stream[j].key : j \in 1..Len(stream)} :
        \A j \in 1..Len(stream) : stream[j].key = id \/ IdLess(stream[j].key, id)
IdStr(ms, sq) == str(ms) \o <<45>> \o str(sq)
\* The request is answered with the bulk string id, and the stream of key k
\* holds an entry under id afterwards.
AppendedAs(c, k, id) ==
    /\ out'[c] = serialize_bulk_string(PyStr(id))
    /\ \E i \in 1..Len(StreamOf(k)') : StreamOf(k)'[i].key = id
    /\ Len(StreamOf(k)') = Len(StreamOf(k)) + 1

\* C14: XADD with the id "*".  The id resolves to (now, 0) on an empty
\* stream when now # 0 and to (0, 1) when now = 0; on a non-empty stream to
\* (now, last_seq + 1) when now is the ms of the top entry and to (now, 0)
\* when now is greater; the entry is appended and the resolved id is the
\* bulk reply, so that two XADD * within one millisecond both succeed.
C14_XaddFullWildcard ==
    [][\A c \in KvClients, m \in XaddMsgs :
          (m.a[3].s = Star /\ handle_xadd(c, m)) =>
             LET k == m.a[2].s
                 old == StreamOf(k)
                 top == IdPair(TopId(old))
             IN  /\ (Len(old) = 0 /\ now # 0) => AppendedAs(c, k, IdStr(now, 0))
                 /\ (Len(old) = 0 /\ now = 0) => AppendedAs(c, k, IdStr(0, 1))
                 /\ (Len(old) > 0 /\ now = top[1]) =>
                        AppendedAs(c, k, IdStr(now, top[2] + 1))
                 /\ (Len(old) > 0 /\ now > top[1]) => AppendedAs(c, k, IdStr(now, 0))]_vars

\* The ms of an id argument "<ms>-*".
PartialWildcard(id) == id # Star /\ Len(split(id)) = 2 /\ split(id)[2] = Star

\* C15: XADD with the id "<ms>-*".  On an empty stream the sequence number
\* resolves to 1 when ms = 0 and to 0 otherwise; on a non-empty stream to
\* last_seq + 1 when ms is the ms of the stream's greatest id in the numeric
\* order, and otherwise to 0 (1 when ms = 0).
C15_XaddPartialWildcard ==
    [][\A c \in KvClients, m \in XaddMsgs :
          (PartialWildcard(m.a[3].s) /\ handle_xadd(c, m)) =>
             LET old == StreamOf(m.a[2].s)
                 ms == int(split(m.a[3].s)[1]).n
                 top == IdPair(TopId(old))
                 sq == IF Len(old) > 0 /\ ms = top[1] THEN top[2] + 1
                       ELSE IF ms = 0 THEN 1 ELSE 0
             IN  ResolvedId(m) = IdStr(ms, sq)]_vars

\* The entries of a stream in ascending numeric order of their ids.
RECURSIVE Ascending(_)
Ascending(stream) ==
    IF stream = <<>> THEN <<>>
    ELSE LET m == CHOOSE i \in 1..Len(stream) :
                      \A j \in 1..Len(stream) : ~IdLess(stream[j].key, stream[i].key)
         IN  <<stream[m]>>
             \o Ascending(SubSeq(stream, 1, m - 1) \o SubSeq(stream, m + 1, Len(stream)))
IdLeq(a, b) == IdPair(a) = IdPair(b) \/ IdLess(a, b)
Minus == <<45>>
Plus == <<43>>
\* The entries a range query is to return, as the reply lists them.
InRange(stream, Keep(_)) ==
    format_fetched_stream_entries_for_xrange(
        SelectSeq(Ascending(stream), LAMBDA e : Keep(e.key)))

\* C16: XRANGE is inclusive at both ends.  XRANGE key start end returns
\* exactly the entries with start <= id <= end in the numeric order on
\* (ms, seq), "-" standing for the least and "+" for the greatest id, in
\* ascending order; no entry greater than end is returned, also when end is
\* not the id of an entry.
C16_XrangeInclusive ==
    [][\A c \in KvClients, m \in XrangeMsgs :
          handle_xrange(c, m) =>
             LET lo == m.a[3].s
                 hi == m.a[4].s
                 Keep(id) == /\ (lo = Minus \/ IdLeq(lo, id))
                             /\ (hi = Plus \/ IdLeq(id, hi))
             IN  out'[c] = serialize_array(InRange(StreamOf(m.a[2].s), Keep))]_vars

\* C17: XREAD starts after the given id.  XREAD STREAMS key id returns
\* exactly the entries whose id is strictly greater than id; the entry
\* whose id equals id is not returned.
C17_XreadExclusive ==
    [][\A c \in KvClients, m \in XreadMsgs :
          handle_xread(c, m) =>
             LET k == m.a[3].s
                 Keep(id) == IdLess(m.a[4].s, id)
             IN  out'[c] = serialize_array(
                     <<PyList(<<PyStr(k), PyList(InRange(StreamOf(k), Keep))>>)>>)]_vars

\* C18: expiry options of SET.  SET k v EX n stores the expiry
\* now + 1000 * n, SET k v PX n stores now + n, and SET k v stores 0 (no
\* expiry); the option is matched without regard to case.
C18_SetExpiryOptions ==
    [][\A c \in KvClients, m \in SetMsgs :
          handle_set(c, m) =>
             LET stored == DictGet(datastore', m.a[2].s, [exp |-> -1]).exp
                 n == int(m.a[5].s).n
             IN  /\ Len(m.a) = 3 => stored = 0
                 /\ (Len(m.a) = 5 /\ upper(m.a[4].s) = <<69, 88>>) => stored = now + 1000 * n
                 /\ (Len(m.a) = 5 /\ upper(m.a[4].s) = <<80, 88>>) => stored = now + n]_vars

(***************************************************************************)
(* The active expiry sweep (expiry.py 7-37): one pass of the loop of       *)
(* actively_expire_keys over the keyspace that SET and XADD fill.          *)
(***************************************************************************)
\* current_time = time.time() is the clock in seconds, now / 1000, and is
\* compared with the expiry in milliseconds:
\* now / 1000 > expiry_timestamp  iff  now > 1000 * expiry_timestamp.
actively_expire_keys ==
    /\ LET expired_keys ==
               {datastore[i].key : i \in {j \in 1..Len(datastore) :
                                             now > 1000 * datastore[j].exp}}
       IN  datastore' = SelectSeq(datastore, LAMBDA item : item.key \notin expired_keys)
    /\ UNCHANGED <<now, msg, out, pcH, streams, replVars, codecVars>>

NextSweep ==
    \/ Set
    \/ \E c \in KvClients, m \in XaddMsgs : m.a[3].s = Star /\ handle_xadd(c, m)
    \/ Tick
    \/ actively_expire_keys

SpecSweep == Init /\ [][NextSweep]_vars

\* C19: the active sweep removes only expired keys.  A sweep deletes every
\* key whose expiry is not 0 and lies before the clock, and no other key: a
\* key with the expiry 0 (a stream key among them) or with an expiry still
\* to come stays.
C19_SweepRemovesOnlyExpired ==
    [][actively_expire_keys =>
          datastore' = SelectSeq(datastore, LAMBDA item : ~IsExpired(item))]_vars

(***************************************************************************)
(* The RDB snapshot (main.py 46-53, util.py 8-19): a server started with   *)
(* --dir and --dbfilename, whose handler is entered once per accepted      *)
(* connection.                                                             *)
(***************************************************************************)
\* parser.kv of the file: k holds "b" without expiry, j holds "b" with the
\* expiry 2 ms.
RdbKv ==
    << [key |-> <<107>>, val |-> PyStr(<<98>>), exp |-> EXPIRY_TIMESTAMP_DEFAULT_VAL],
       [key |-> <<106>>, val |-> PyStr(<<98>>), exp |-> 2] >>

init_rdb_parser(parsing_reqd_flag, isfile) ==
    IF parsing_reqd_flag /\ isfile THEN RdbKv ELSE <<>>

\* The handler from its entry to its first read: datastore |= kv_store.
handler_accept(c) ==
    /\ pcH[c] = "closed"
    /\ LET kv_store == init_rdb_parser(TRUE, TRUE)
           RECURSIVE ior(_, _)
           ior(d, i) ==
               IF i > Len(kv_store) THEN d
               ELSE ior(DictSet(d, kv_store[i].key, kv_store[i].val, kv_store[i].exp), i + 1)
       IN  datastore' = ior(datastore, 1)
    /\ pcH' = [pcH EXCEPT ![c] = "read"]
    /\ UNCHANGED <<now, msg, out, streams, replVars, codecVars>>

\* main.py 105-108: CONFIG of a server started with --dir /d --dbfilename f
ConfigWithFile ==
    << [key |-> <<100, 105, 114>>, val |-> PyStr(<<47, 100>>)],
       [key |-> <<100, 98, 102, 105, 108, 101, 110, 97, 109, 101>>, val |-> PyStr(<<102>>)] >>

InitSnapshot ==
    /\ now = 1
    /\ datastore = <<>>
    /\ msg = [c \in Conns |-> PyNone]
    /\ out = [c \in Conns |-> <<>>]
    /\ pcH = [c \in Conns |-> "closed"]
    /\ streams = <<>>
    /\ ReplIdle
    /\ cmsg = PyNone
    /\ cwire = <<>>
    /\ cread = NotRun
    /\ csize = NotRun
    /\ fhand = <<>>
    /\ rdb = NotRun
    /\ CONFIG = ConfigWithFile

NextSnapshot ==
    \/ \E c \in Conns : handler_accept(c)
    \/ Set
    \/ Get
    \/ Tick

SpecSnapshot == InitSnapshot /\ [][NextSnapshot]_vars

\* C20: the snapshot is merged once.  Once a first connection has been
\* accepted, and with it the snapshot is in the keyspace, accepting a
\* further connection leaves the keyspace as it is: a snapshot key that a
\* client has overwritten keeps the client's value, and a snapshot key that
\* expiry has removed does not come back.
C20_SnapshotMergedOnce ==
    [][\A c \in Conns :
          (handler_accept(c) /\ \E d \in Conns : pcH[d] # "closed")
             => datastore' = datastore]_vars

(***************************************************************************)
(* The failure specification: a primary with one replica, which may go     *)
(* away or stop reading once it is registered, while clients send one SET  *)
(* and one WAIT, or a frame that is no RESP frame.                         *)
(***************************************************************************)
InitFail == InitBase /\ ReplStart(1, 1, {"r1"})

NextFail ==
    \/ NextRepl
    \/ Wait \/ WaitSend \/ WaitGather \/ WaitTimeout \/ WaitReply
    \/ \E r \in Replicas : handler_eof(r)
    \/ \E r \in Replicas : replica_stalls(r)
    \/ \E c \in Clients, buf \in BadFrames : handler_bad_frame(c, buf)

SpecFail == InitFail /\ [][NextFail]_vars

Registered(r) == \E i \in 1..Len(replicas) : replicas[i] = r

\* C21: replica removal on failure.  Once the connection of a registered
\* replica has failed and its handler has closed it, the replica is no
\* longer in the list of registered replicas.
C21_FailedReplicaRemoved ==
    \A r \in Replicas : pcH[r] = "closed" => ~Registered(r)

\* C22: a slow or broken replica does not block the client path.  While a
\* registered replica's connection is broken, or takes no more bytes, no
\* client's handler is ended by an exception or held for ever in a write
\* to that replica: each command it has received can still be answered.
C22_ClientPathNotBlocked ==
    (\E r \in Replicas : Registered(r) /\ link(r) # "open")
        => \A c \in Clients : pcH[c] \notin {"dead", "wait_stuck"}

\* C23: a replica honours the TTL of a propagated SET.  When the replica
\* applies SET k v PX n it stores k with the expiry now + n, and with
\* now + 1000 * n for EX n, not with the expiry 0.
C23_ReplicaHonoursTtl ==
    [][\A r \in Replicas :
          (replica_tasks(r) /\ Len(applied'[r]) > Len(applied[r])) =>
             LET m == read_message(toReplica[r]).val
                 stored == DictGet(rstore'[r], m.a[2].s, [exp |-> -1]).exp
             IN  /\ (Len(m.a) = 5 /\ upper(m.a[4].s) = <<80, 88>>)
                        => stored = now + int(m.a[5].s).n
                 /\ (Len(m.a) = 5 /\ upper(m.a[4].s) = <<69, 88>>)
                        => stored = now + 1000 * int(m.a[5].s).n]_vars

\* C24: protocol error policy.  When a client sends a frame whose leading
\* byte is none of + - : $ *, the server closes that connection, writes no
\* reply, and leaves the keyspace and the propagation queue as they are.
C24_ProtocolErrorClosesConnection ==
    [][\A c \in Clients, buf \in BadFrames :
          handler_bad_frame(c, buf) =>
              /\ pcH'[c] = "closed"
              /\ UNCHANGED <<out, datastore, replication_buffer>>]_vars

\* The bytes of a run of consecutive frames of the propagation queue's
\* history (the empty run included).
QueuedSegments ==
    {Concat(SubSeq(queued, i, j)) : i \in 1..(Len(queued) + 1), j \in 0..Len(queued)}

\* C25: handshake/RDB stream alignment.  On a replica's connection the
\* primary writes the +FULLRESYNC line, then the RDB payload as $<len>\r\n
\* and the bytes with no trailing CRLF, and registers the connection only
\* afterwards: nothing propagated precedes or interleaves the payload.  The
\* replica's handshake consumes exactly these bytes, so what its loop finds
\* in the reader starts at the first byte of a propagated frame.
C25_HandshakeRdbAlignment ==
    \A r \in Replicas :
        LET segs == IF Registered(r) THEN QueuedSegments ELSE {<<>>}
        IN  /\ rpc[r] = "hs4" =>
                 toReplica[r] \in
                    {<<>>, FullResync} \cup {FullResync \o RdbFrame \o sg : sg \in segs}
            /\ rpc[r] = "hs5" =>
                 toReplica[r] \in {<<>>} \cup {RdbFrame \o sg : sg \in segs}
            /\ rpc[r] = "loop" => toReplica[r] \in segs

\* A replica enters its loop with a propagated frame already in its reader.
C25_HandshakeRdbAlignmentWitness ==
    \E r \in Replicas :
        /\ rpc[r] = "loop"
        /\ consumed[r] = 0
        /\ Registered(r)
        /\ toReplica[r] # <<>>

(***************************************************************************)
(* Fan-out: one SET from the clients while two replicas attach, with the   *)
(* propagation task scheduled fairly (main.py creates it once at startup   *)
(* and it loops for ever, sleeping WAIT_TIME between polls)                 *)
(***************************************************************************)
MaxFanWrites == 1

InitFan == InitBase /\ ReplStart(MaxFanWrites, 0, Replicas)

SpecFan == InitFan /\ [][NextRepl]_vars /\ WF_vars(propagate_commands)

\* The frames propagate_commands has taken off the queue, oldest first.
Popped == SubSeq(queued, 1, Len(queued) - Len(replication_buffer))

StripPrefix(p, s) ==
    IF Len(s) >= Len(p) /\ SubSeq(s, 1, Len(p)) = p
    THEN SubSeq(s, Len(p) + 1, Len(s))
    ELSE s

\* The bytes in a replica's reader behind the replies of the handshake,
\* st being the replica's place in the handshake.
PropBytes(st, bytes) ==
    CASE st = "hs4" -> StripPrefix(FullResync \o RdbFrame, bytes)
      [] st = "hs5" -> StripPrefix(RdbFrame, bytes)
      [] OTHER -> bytes

RECURSIVE FramesOf(_)
FramesOf(bytes) ==
    IF bytes = <<>> THEN <<>>
    ELSE LET rd == read_message(bytes)
         IN  IF rd.st # "ok" THEN <<bytes>>
             ELSE <<SubSeq(bytes, 1, Len(bytes) - Len(rd.rest))>> \o FramesOf(rd.rest)

\* The frames written to r so far (those it applied, then those in its
\* reader), and with them the frame of the fan-out in progress when r's
\* turn in it is still to come.
DueIn(r, reps, p, st, bytes, ap) ==
    LET idx == CHOOSE i \in 1..Len(reps) : reps[i] = r
    IN  ap \o FramesOf(PropBytes(st, bytes)) \o
           (IF p.pc = "write" /\ idx >= p.i THEN <<p.cmd>> ELSE <<>>)
Due(r) == DueIn(r, replicas, prop, rpc[r], toReplica[r], applied[r])

\* The n-th frame of the queue has been removed and its fan-out is over.
Delivered(n) == Len(Popped) > n \/ (Len(Popped) = n /\ prop.pc = "poll")

\* C26: propagation liveness and fan-out.  A frame stays in the queue
\* while no replica is registered.  With a replica registered and no
\* connection failing, every queued frame is eventually removed and its
\* fan-out completed; each replica registered when a frame is removed is
\* written that frame exactly once, the replicas taking their turn in
\* registration order.
C26_PropagationFanOut ==
    /\ [](\A r \in Replicas :
            Registered(r) =>
               \E k \in 0..Len(Popped) : Due(r) = SubSeq(Popped, k + 1, Len(Popped)))
    /\ [][/\ Len(replicas) = 0 => Len(replication_buffer') >= Len(replication_buffer)
          /\ \A r \in Replicas :
                Registered(r) =>
                   (Len(queued') - Len(replication_buffer'))
                      - Len(DueIn(r, replicas', prop', rpc'[r], toReplica'[r], applied'[r]))
                   = Len(Popped) - Len(Due(r))]_vars
    /\ \A n \in 1..MaxFanWrites :
          (Len(replicas) # 0 /\ Len(queued) >= n) ~> Delivered(n)

\* Both replicas are registered and have each been written the one frame
\* that was queued and removed.
C26_PropagationFanOutWitness ==
    /\ Len(replicas) = 2
    /\ Len(Popped) = 1
    /\ prop.pc = "poll"
    /\ \A r \in Replicas : Due(r) = Popped

(***************************************************************************)
(* rdb.py: the length and string decoders of RDBParser                     *)
(***************************************************************************)
\* int.from_bytes(b, byteorder="little")
RECURSIVE from_bytes_little(_)
from_bytes_little(b) ==
    IF Len(b) = 0 THEN 0 ELSE Head(b) + 256 * from_bytes_little(Tail(b))

\* int.from_bytes(b, byteorder="big"), unsigned
RECURSIVE from_bytes(_)
from_bytes(b) ==
    IF Len(b) = 0 THEN 0
    ELSE 256 * from_bytes(SubSeq(b, 1, Len(b) - 1)) + b[Len(b)]

\* fhand.read(size): up to size bytes, all that is left when size is -1.
\* The result is <<bytes read, bytes left>>.
_read_bytes(f, size) ==
    LET n == IF size < 0 \/ size > Len(f) THEN Len(f) ELSE size
    IN  <<SubSeq(f, 1, n), SubSeq(f, n + 1, Len(f))>>

\* bytes.decode(): bytes below 128 are their own characters and 0xFF occurs
\* in no UTF-8 text (the files here hold no other byte from 128 up).
decode(b) == IF \A i \in 1..Len(b) : b[i] < 128 THEN Ok(PyStr(b), <<>>) ELSE Raised

\* parse_length_encoded_int on a file f: (special_format, length) and what
\* is left of the file; indexing the empty read raises IndexError.
parse_length_encoded_int(f) ==
    IF Len(f) = 0 THEN Raised
    ELSE
      LET determinant == f[1]
          f1 == Tail(f)
          low == determinant % 64
      IN  CASE determinant \div 64 = 0 ->
                 [st |-> "ok", special_format |-> FALSE, length |-> low, rest |-> f1]
            [] determinant \div 64 = 1 ->
                 IF Len(f1) = 0 THEN Raised
                 ELSE [st |-> "ok", special_format |-> FALSE,
                       length |-> low * 256 + f1[1], rest |-> Tail(f1)]
            [] determinant \div 64 = 2 ->
                 [st |-> "ok", special_format |-> FALSE,
                  length |-> from_bytes(_read_bytes(f1, 4)[1]),
                  rest |-> _read_bytes(f1, 4)[2]]
            [] OTHER ->
                 CASE low = 0 -> [st |-> "ok", special_format |-> TRUE, length |-> 1, rest |-> f1]
                   [] low = 1 -> [st |-> "ok", special_format |-> TRUE, length |-> 2, rest |-> f1]
                   [] low = 2 -> [st |-> "ok", special_format |-> TRUE, length |-> 4, rest |-> f1]
                   [] low = 3 -> [st |-> "ok", special_format |-> TRUE, length |-> -1, rest |-> f1]
                   [] OTHER -> Raised

\* parse_encoded_string on a file f: the str and what is left of the file.
parse_encoded_string(f) ==
    LET l == parse_length_encoded_int(f)
    IN  IF l.st # "ok" THEN Raised
        ELSE LET rd == _read_bytes(l.rest, l.length)
             IN  IF ~l.special_format
                 THEN IF decode(rd[1]).st = "ok" THEN Ok(decode(rd[1]).val, rd[2]) ELSE Raised
                 ELSE Ok(PyStr(str(from_bytes(rd[1]))), rd[2])

(***************************************************************************)
(* The parser specification: a file positioned at a length or a string,    *)
(* and one of the two decoders applied to it                               *)
(***************************************************************************)
\* The bytes after the first: none, one, or four of them.
RdbTails ==
    {<<>>, <<1>>} \cup
    {<<a, b, c, d>> : a \in {0, 1, 127, 255}, b \in {0, 255}, c \in {0, 97}, d \in {2, 255}}

\* Every first byte, with every tail; a four-byte integer of 2^31 or more
\* is left out (it is beyond the integers of the model checker).
RdbFiles ==
    {<<b>> \o t : b \in 0..255, t \in RdbTails} \
       {<<b>> \o t : b \in (128..191) \cup {194, 195}, t \in {u \in RdbTails : Len(u) = 4 /\ u[1] = 255}}

InitRdb ==
    /\ now = 1
    /\ datastore = <<>>
    /\ msg = [c \in Conns |-> PyNone]
    /\ out = [c \in Conns |-> <<>>]
    /\ pcH = [c \in Conns |-> "read"]
    /\ streams = <<>>
    /\ ReplIdle
    /\ cmsg = PyNone
    /\ cwire = <<>>
    /\ cread = NotRun
    /\ csize = NotRun
    /\ fhand \in RdbFiles
    /\ rdb = NotRun
    /\ CONFIG = <<>>

rdbRest == <<now, datastore, msg, out, pcH, streams, replVars, cmsg, cwire, cread, csize, CONFIG>>

ParseLength ==
    /\ rdb = NotRun
    /\ LET l == parse_length_encoded_int(fhand)
       IN  /\ rdb' = [op |-> "length", file |-> fhand, res |-> l]
           /\ fhand' = IF l.st = "ok" THEN l.rest ELSE <<>>
    /\ UNCHANGED rdbRest

ParseString ==
    /\ rdb = NotRun
    /\ LET x == parse_encoded_string(fhand)
       IN  /\ rdb' = [op |-> "string", file |-> fhand, res |-> x]
           /\ fhand' = IF x.st = "ok" THEN x.rest ELSE <<>>
    /\ UNCHANGED rdbRest

NextRdb == ParseLength \/ ParseString

SpecRdb == InitRdb /\ [][NextRdb]_vars

\* C27: RDB length decoding.  For every first byte b with the bytes it
\* needs behind it: top bits 00 give b & 0x3F and consume 1 byte; 01 give
\* ((b & 0x3F) << 8) | next and consume 2; 10 give the 32-bit big-endian
\* value of the next four bytes and consume 5; 11 with low bits 0, 1, 2
\* flag the special format with widths 1, 2, 4, and the string read there
\* is the decimal rendering of the big-endian integer of that width.
C27_RdbLengthDecoding ==
    (rdb # NotRun /\ Len(rdb.file) = 5) =>
        LET b == rdb.file[1]
            t == Tail(rdb.file)
            taken == Len(rdb.file) - Len(rdb.res.rest)
            plain(n, used) ==
                /\ rdb.res.st = "ok" /\ ~rdb.res.special_format
                /\ rdb.res.length = n /\ taken = used
            special(width) ==
                IF rdb.op = "length"
                THEN /\ rdb.res.st = "ok" /\ rdb.res.special_format
                     /\ rdb.res.length = width /\ taken = 1
                ELSE /\ rdb.res.st = "ok" /\ taken = 1 + width
                     /\ rdb.res.val =
                          PyStr(str(IF width = 1 THEN t[1]
                                    ELSE IF width = 2 THEN t[1] * 256 + t[2]
                                    ELSE ((t[1] * 256 + t[2]) * 256 + t[3]) * 256 + t[4]))
        IN  /\ (rdb.op = "length" /\ b \in 0..63) => plain(b % 64, 1)
            /\ (rdb.op = "length" /\ b \in 64..127) => plain((b % 64) * 256 + t[1], 2)
            /\ (rdb.op = "length" /\ b \in 128..191) =>
                  plain(((t[1] * 256 + t[2]) * 256 + t[3]) * 256 + t[4], 5)
            /\ b = 192 => special(1)
            /\ b = 193 => special(2)
            /\ b = 194 => special(4)

\* A string in the special format of width 2 was read: C1 00 FF gives "255".
C27_RdbLengthDecodingWitness ==
    /\ rdb # NotRun
    /\ rdb.op = "string"
    /\ Len(rdb.file) = 5
    /\ SubSeq(rdb.file, 1, 3) = <<193, 0, 255>>
    /\ rdb.res.st = "ok"
    /\ rdb.res.val = PyStr(<<50, 53, 53>>)

\* C28: replica convergence.  For every replica that has completed the
\* handshake, whether it registered before or after earlier writes were
\* drained: once the propagation queue is empty, no write waits to enter
\* it, no fan-out is in progress and the replica has applied all it
\* received, every key of the primary that was last written by a SET
\* without TTL has the same value in the replica's keyspace.
C28_ReplicaConvergence ==
    \A r \in Replicas :
        (/\ rpc[r] = "loop" /\ Registered(r)
         /\ replication_buffer = <<>> /\ prop.pc = "poll"
         /\ \A c \in Clients : pcH[c] = "read"
         /\ toReplica[r] = <<>>)
        => \A i \in 1..Len(datastore) :
              datastore[i].exp = EXPIRY_TIMESTAMP_DEFAULT_VAL =>
                 /\ DictHas(rstore[r], datastore[i].key)
                 /\ DictGet(rstore[r], datastore[i].key, PyNone).val = datastore[i].val

(***************************************************************************)
(* A key written both as a string and as a stream: SET and XADD on one     *)
(* key, with TYPE and XRANGE - + reading it                                *)
(***************************************************************************)
NextKeyStream ==
    \/ \E c \in KvClients, m \in SetMsgs :
          m.a[2].s \in XaddKeys /\ Len(m.a) = 3 /\ handle_set(c, m)
    \/ \E c \in KvClients, m \in XaddMsgs : m.a[3].s \in XaddFullIds /\ handle_xadd(c, m)
    \/ Type
    \/ \E c \in KvClients, m \in XrangeMsgs :
          m.a[3].s = <<45>> /\ m.a[4].s = <<43>> /\ handle_xrange(c, m)

SpecKeyStream == Init /\ [][NextKeyStream]_vars

\* C29: keyspace/stream consistency.  After any sequence of SET and XADD
\* commands a key has stream entries, which XRANGE and XREAD read from
\* streams, if and only if TYPE, which reads the datastore, reports it as
\* a stream; so after SET k v on a key that held a stream the key has no
\* entries left.
C29_KeyspaceStreamConsistency ==
    \A k \in Keys :
        (Len(DictGet(streams, k, [val |-> <<>>]).val) > 0)
           <=> (type_name(DictGet(datastore, k, [val |-> PyNone]).val)
                   = <<115, 116, 114, 101, 97, 109>>)

\* C30: single reader per replica connection.  Of a registered replica's
\* connection: a WAIT gather reads from it only while the handler of that
\* connection is not waiting in a read of the same stream; a frame taken
\* off it is taken by a WAIT gather, never by the handler; and the primary
\* never writes +OK on it, which is how the handler answers a REPLCONF ACK.
C30_SingleReaderPerReplica ==
    [][\A r \in Replicas :
          Registered(r) =>
             /\ \A c \in Clients :
                   (/\ handle_wait_gather(c)
                    /\ wait[c].i <= Len(replicas)
                    /\ replicas[wait[c].i] = r) => pcH[r] # "read"
             /\ Len(toPrimary'[r]) < Len(toPrimary[r]) => pcH'[r] = pcH[r]
             /\ toReplica'[r] # toReplica[r] \o serialize_simple_string(StrOK)]_vars

\* C31: failure isolation between replicas.  When the write of a
\* propagated frame to one replica fails, the propagation task keeps
\* running: it is never ended by the exception of a write, so the frames
\* queued later are still taken off the queue and written to the other
\* registered replicas.
C31_PropagationSurvivesWriteFailure ==
    [][\A i \in 1..Len(replicas) :
          (/\ propagate_commands
           /\ link(replicas[i]) = "lost"
           /\ \/ prop.pc = "poll" /\ i = 1
              \/ prop.pc = "write" /\ i = prop.i)
          => prop'.pc \in {"write", "poll"}]_vars

(***************************************************************************)
(* CONFIG GET beside the keyspace commands, on a server started with or    *)
(* without --dir and --dbfilename                                          *)
(***************************************************************************)
\* CONFIG GET dir, CONFIG GET dbfilename, CONFIG GET port
ConfigMsgs ==
    {Cmd(<<<<67, 79, 78, 70, 73, 71>>, CmdGET, name>>) :
        name \in {<<100, 105, 114>>,
                  <<100, 98, 102, 105, 108, 101, 110, 97, 109, 101>>,
                  <<112, 111, 114, 116>>}}

\* handle_config_get: write_array([key, CONFIG.get(key, None)])
handle_config_get(c, m) ==
    /\ pcH[c] = "read"
    /\ LET key == m.a[3]
           value == DictGet(CONFIG, key.s, [val |-> PyNone]).val
       IN  Handled(c, m, serialize_array(<<key, value>>))
    /\ UNCHANGED <<now, datastore, pcH, streams, replVars, codecVars>>

InitConfig ==
    /\ now = 1
    /\ datastore = <<>>
    /\ msg = [c \in Conns |-> PyNone]
    /\ out = [c \in Conns |-> <<>>]
    /\ pcH = [c \in Conns |-> "read"]
    /\ streams = <<>>
    /\ ReplIdle
    /\ cmsg = PyNone
    /\ cwire = <<>>
    /\ cread = NotRun
    /\ csize = NotRun
    /\ fhand = <<>>
    /\ rdb = NotRun
    /\ CONFIG \in {<<>>, ConfigWithFile}

NextConfig ==
    \/ \E c \in KvClients, m \in ConfigMsgs : handle_config_get(c, m)
    \/ Set
    \/ Get
    \/ ListKeys

SpecConfig == InitConfig /\ [][NextConfig]_vars

\* The frames of the elements behind an array's header line.
RECURSIVE ElementFrames(_)
ElementFrames(bytes) ==
    IF bytes = <<>> THEN <<>>
    ELSE LET rd == read_message(bytes)
         IN  IF rd.st # "ok" THEN <<bytes>>
             ELSE <<SubSeq(bytes, 1, Len(bytes) - Len(rd.rest))>> \o ElementFrames(rd.rest)

\* C32: well-formed array replies.  Every array frame written to a client
\* declares a count equal to the number of element frames that follow it;
\* the reply to CONFIG GET for a parameter that is not in CONFIG is an
\* array of the name and the null bulk string.
C32_WellFormedArrayReplies ==
    \A c \in KvClients :
        (out[c] # <<>> /\ out[c][1] = 42) =>
            LET header == read_line(out[c])
            IN  /\ header.st = "ok"
                /\ int(Tail(header.val)).n = Len(ElementFrames(header.rest))
                /\ (command_of(msg[c]) = <<67, 79, 78, 70, 73, 71>>
                    /\ ~DictHas(CONFIG, msg[c].a[3].s))
                   => ElementFrames(header.rest)[2] = <<36, 45, 49>> \o CRLF

=============================================================================
